---- MODULE Spec2Model ----
(***************************************************************************)
(* State-machine models of the Tock capsules that arbitrate one hardware   *)
(* resource among several clients: AdcVirtualized and AdcDedicated         *)
(* (capsules/core/src/adc.rs), MuxPwm (virtualizers/virtual_pwm.rs),       *)
(* NonvolatileStorage (nonvolatile_storage_driver.rs), TextScreen          *)
(* (text_screen.rs) and UsbSyscallDriver (usb/usb_user.rs).                *)
(*                                                                         *)
(* The kernel is single-threaded and cooperative: every system call and    *)
(* every hardware callback runs to completion, so each one is one action.  *)
(* The synchronous answer of the hardware to a start request is an input   *)
(* of the action, drawn with \E.  Each driver has its own specification    *)
(* (SpecAv, SpecNv, ...); the variables of the other drivers stay put.     *)
(***************************************************************************)
EXTENDS Integers, Sequences, FiniteSets, TLC

\* Number of processes loaded on the board.  A ProcessId is never reused: a
\* destroyed (or restarted) process no longer resolves under its old id.
NumProcs == 3
Procs == 1..NumProcs
\* Number of processes that use the drivers with the larger states
\* (NonvolatileStorage, TextScreen); the other processes never call them.
NumClients == 2
Clients == 1..NumClients
\* An empty OptionalCell<ProcessId>.
NoProc == 0

VARIABLES
  alive,               \* the processes whose ProcessId still resolves
  \* ---- AdcVirtualized (adc.rs)
  av_current_process,  \* OptionalCell<ProcessId>: NoProc or the owner
  av_apps,             \* Grant<AppSys>: per process pending_command, channel
  av_hw,               \* channel whose accepted sample() awaits sample_ready
  av_overlap,          \* the latest handler called sample() with one in flight
  av_ret,              \* return code of the last command ("NONE": no command)
  av_upcall,           \* upcall scheduled by the last action
  av_queued,           \* what enqueue_command last found queued in the
                       \* caller's slot: [pid, slot] (pid NoProc: nothing)
  av_dropped,          \* the candidates the scan of the last action tried to
                       \* start and the channel driver rejected
  av_stale,            \* the processes destroyed with a request queued behind
                       \* another process's sample in flight
  \* ---- AdcDedicated (adc.rs)
  ad_active,           \* Cell<bool> active
  ad_mode,             \* Cell<AdcMode> mode
  ad_processid,        \* OptionalCell<ProcessId>: NoProc or the owner
  ad_apps,             \* Grant<App>: samples_remaining, samples_outstanding,
                       \* next_samples_outstanding, using_app_buf0,
                       \* app_buf_offset
  ad_cells,            \* adc_buf1, adc_buf2, adc_buf3: NoBuffer or a buffer
  ad_hw,               \* the ADC: what it is doing and the buffers it holds
                       \* with the number of samples asked for each, the
                       \* one it returns next first
  ad_allow,            \* per process, the byte lengths of its two allowed
                       \* read-write buffers (0: not allowed)
  ad_channel,          \* Cell<usize> channel: the channel the upcalls report
  ad_ret,              \* return code of the last command ("NONE": none)
  ad_copy,             \* what the last action, when it is samples_ready,
                       \* was handed and did: the buffer the ADC returned
                       \* (buf), the one passed to provide_buffer (prov), the
                       \* one whose samples it copied (from), the number of
                       \* samples copied (n), the sample position in the
                       \* process buffer they start at (at), the allowed
                       \* buffer written (to); 0 stands for none
  ad_upcall,           \* upcall scheduled by the last action: <<>> or
                       \* <<mode, samples, channel, allowed buffer>> (for
                       \* the sample modes <<mode, channel>>)
  ad_stopped,          \* a stop command returned success and no sampling
                       \* command has been accepted since
  ad_panicked,         \* the kernel panicked in a handler of this driver
  \* ---- NonvolatileStorage (nonvolatile_storage_driver.rs)
  nv_current_user,     \* OptionalCell<NonvolatileUser>: NoProc, Kernel or a pid
  nv_apps,             \* Grant<App>: pending_command, command, offset, length
  nv_buffer,           \* TakeCell `buffer`: NoBuf or the buffer it holds
  nv_kernel,           \* kernel_pending_command, kernel_command, kernel_buffer,
                       \* kernel_readwrite_length, kernel_readwrite_address
  nv_hw,               \* the storage driver: the accepted read/write in flight
  nv_client,           \* number of buffers the kernel client holds
  nv_overlap,          \* the latest handler called read/write with one in flight
  nv_data,             \* the bytes the internal buffer holds: <<"zeros">>,
                       \* <<"storage">> or <<"app", p>>, those of the allowed
                       \* write buffer of process p
  nv_ret,              \* return code of the last request ("NONE": none)
  \* ---- MuxPwm (virtualizers/virtual_pwm.rs)
  pwm_devices,         \* List<PwmPinUser>: the registered users, head first
  pwm_inflight,        \* OptionalCell<&PwmPinUser>: NoUser or the owner
  pwm_operation,       \* per user, OptionalCell<Operation>
  pwm_pins,            \* the PWM hardware: what each user's pin is doing
  pwm_calls,           \* hardware calls made by the last start()/stop()
  pwm_ret,             \* what the last start()/stop() returned
  \* ---- TextScreen (text_screen.rs)
  ts_current_app,      \* OptionalCell<ProcessId>: NoProc or the owner
  ts_apps,             \* Grant<App>: pending_command, write_len, command,
                       \* data1, data2
  ts_buffer,           \* TakeCell `buffer`: TRUE when it holds the buffer
  ts_hw,               \* the screen: "none", or the accepted operation whose
                       \* completion is to come ("command" / "write")
  ts_overlap,          \* the latest handler called the screen with one in flight
  ts_ret,              \* return code of the last command ("NONE": none)
  ts_panicked,         \* the kernel panicked in a handler of this driver
  ts_queued,           \* what enqueue_command last found queued in the
                       \* caller's slot: [pid, slot] (pid NoProc: nothing)
  ts_upcall,           \* the processes the last action scheduled an upcall for
  ts_stale,            \* the processes destroyed with a request queued behind
                       \* another process's operation in flight
  \* ---- UsbSyscallDriver (usb/usb_user.rs)
  usb_awaiting,        \* Grant<App>: per process, awaiting.is_some()
  usb_serving_app,     \* OptionalCell<ProcessId>
  usb_ret,             \* return code of the last command ("NONE": none)
  usb_upcall,          \* process the last command scheduled an upcall for
  usb_queued,          \* the caller of the last command 1 when its request
                       \* was still awaiting (NoProc: it had none)
  \* ---- RngDriver (rng.rs)
  rng_apps,            \* Grant<App>: per process remaining, idx
  rng_getting_randomness, \* Cell<bool> getting_randomness
  rng_allow,           \* per process, the byte length of its allowed buffer
  rng_hw,              \* the generator accepted get() and is still to call
                       \* randomness_available
  rng_ret,             \* what the last action, when it is
                       \* randomness_available, returned ("NONE": other)
  rng_hist             \* per process, about its latest command 1 (n = -1:
                       \* none, or it has allowed another buffer since): the
                       \* bytes asked for (n), the indices of its buffer
                       \* written since (written), whether a
                       \* randomness_available has entered its grant since
                       \* (seen), the upcalls scheduled since (ups) and the
                       \* byte count of the last one (arg)
  ,
  \* ---- SI7021 (si7021.rs)
  si_state,            \* Cell<State>
  si_on_deck,          \* Cell<OnDeck>: "Nothing", "Temperature", "Humidity"
  si_buffer,           \* TakeCell `buffer` holds the buffer
  si_i2c,              \* the I2C transfer accepted and not yet completed:
                       \* "none", "write" or "read"
  si_alarm,            \* the alarm is armed
  si_ret,              \* return code of the last request ("NONE": none)
  si_started,          \* the measurement the last handler sent the chip
                       \* the command for ("Nothing": none)
  si_callback,         \* the client the last handler called back:
                       \* "none", "temperature" or "humidity"
  \* ---- Isl29035 (isl29035.rs)
  isl_state,           \* Cell<State>, without the payload of Disabling
  isl_lux,             \* the lux value State::Disabling carries (0: other)
  isl_buffer,          \* TakeCell `buffer` holds the buffer
  isl_i2c,             \* the I2C transfer accepted and not yet completed:
                       \* "none", "write" or "write_read"
  isl_alarm,           \* the alarm is armed
  isl_ret,             \* return code of the last read_light_intensity
                       \* ("NONE": the last action was a callback)
  isl_read,            \* about the latest accepted read_light_intensity
                       \* (accepted FALSE: none yet): the client callbacks
                       \* made since, the value of the last one, whether an
                       \* I2C call or transfer failed since, and the byte
                       \* the light register read
  \* ---- HumiditySensor (humidity.rs)
  hum_apps,            \* Grant<App>: per process subscribed
  hum_busy,            \* Cell<bool> busy
  hum_hw,              \* the sensor accepted a read_humidity and has not
                       \* called back yet
  hum_call,            \* what the last handler's read_humidity met:
                       \* "none" (not called), "accepted", "rejected", or
                       \* "overlap" (called with an accepted read pending)
  hum_ret,             \* return code of the last command ("NONE": the last
                       \* action was not a command)
  hum_ok,              \* the live processes whose command 1 returned
                       \* success since the last sensor callback
  hum_upcall,          \* the upcalls the last handler scheduled, in order:
                       \* <<process, humidity_val>>
  \* ---- Entropy32To8 and Entropy8To32 (rng.rs)
  e32_entropy,         \* Entropy32To8: Cell<u32> entropy
  e32_bytes_consumed,  \* Entropy32To8: Cell<usize> bytes_consumed
  e8_count,            \* Entropy8To32: Cell<usize> count
  e8_bytes,            \* Entropy8To32: Cell<u32> bytes
  ent_word,            \* the word Entropy32To8 was last given
  ent_offered,         \* the words the iterator handed to Entropy8To32's
                       \* client in the last call yields (<<>>: the client
                       \* was not called or nothing is ready)
  ent_ret              \* what the last Entropy8To32::entropy_available
                       \* returned: "More", "Done" or "NONE" (not called)

av_vars == <<av_current_process, av_apps, av_hw, av_overlap, av_ret, av_upcall,
             av_queued, av_dropped, av_stale>>

ad_vars == <<ad_active, ad_mode, ad_processid, ad_apps, ad_cells, ad_hw,
             ad_allow, ad_channel, ad_ret, ad_copy, ad_upcall, ad_stopped,
             ad_panicked>>

nv_vars == <<nv_current_user, nv_apps, nv_buffer, nv_kernel, nv_hw, nv_client,
             nv_overlap, nv_data, nv_ret>>

pwm_vars == <<pwm_devices, pwm_inflight, pwm_operation, pwm_pins, pwm_calls,
              pwm_ret>>

ts_vars == <<ts_current_app, ts_apps, ts_buffer, ts_hw, ts_overlap, ts_ret,
             ts_panicked, ts_queued, ts_upcall,
             ts_stale>>

usb_vars == <<usb_awaiting, usb_serving_app, usb_ret, usb_upcall, usb_queued>>

rng_vars == <<rng_apps, rng_getting_randomness, rng_allow, rng_hw, rng_ret,
              rng_hist>>

si_vars == <<si_state, si_on_deck, si_buffer, si_i2c, si_alarm, si_ret,
             si_started, si_callback>>

isl_vars == <<isl_state, isl_lux, isl_buffer, isl_i2c, isl_alarm, isl_ret,
              isl_read>>

\* The drivers of single sensors.
hum_vars == <<hum_apps, hum_busy, hum_hw, hum_call, hum_ret, hum_ok,
              hum_upcall>>

ent_vars == <<e32_entropy, e32_bytes_consumed, e8_count, e8_bytes, ent_word,
              ent_offered, ent_ret>>

sensor_vars == <<si_vars, isl_vars, hum_vars, ent_vars>>

vars == <<alive, av_vars, ad_vars, nv_vars, pwm_vars, ts_vars, usb_vars,
          rng_vars, sensor_vars>>

\* What an action of one driver leaves alone.
av_others == <<ad_vars, nv_vars, pwm_vars, ts_vars, usb_vars, rng_vars,
               sensor_vars>>
ad_others == <<av_vars, nv_vars, pwm_vars, ts_vars, usb_vars, rng_vars,
               sensor_vars>>
nv_others == <<av_vars, ad_vars, pwm_vars, ts_vars, usb_vars, rng_vars,
               sensor_vars>>
pwm_others == <<alive, av_vars, ad_vars, nv_vars, ts_vars, usb_vars, rng_vars,
               sensor_vars>>
ts_others == <<av_vars, ad_vars, nv_vars, pwm_vars, usb_vars, rng_vars,
               sensor_vars>>
usb_others == <<av_vars, ad_vars, nv_vars, pwm_vars, ts_vars, rng_vars,
               sensor_vars>>
rng_others == <<av_vars, ad_vars, nv_vars, pwm_vars, ts_vars, usb_vars,
               sensor_vars>>

----------------------------------------------------------------------------
(* AdcVirtualized *)

\* Length of the `drivers` slice handed to AdcVirtualized::new.
NumChannels == 2
\* Channel arguments a process may pass: the valid ones and one out of range.
ChannelArgs == 0..NumChannels
NoChan == -1

AppSysDefault == [pending_command |-> FALSE, channel |-> 0]
AvNoUpcall == [pid |-> NoProc, channel |-> NoChan]
AvNoQueued == [pid |-> NoProc, slot |-> AppSysDefault]

\* The driver state threaded through one handler.  rej is an input: the
\* number of start attempts the hardware rejects before it accepts one.
AvState(rej) == [cur |-> av_current_process, apps |-> av_apps, hw |-> av_hw,
                 overlap |-> FALSE, rej |-> rej, dropped |-> {}]

\* call_driver: drivers[channel].sample().  A channel driver that still owes
\* a sample_ready rejects the call; an idle one answers as the input says.
AvCallDriver(s, channel) ==
  IF s.hw # NoChan
    THEN [ok |-> FALSE, s |-> [s EXCEPT !.overlap = TRUE]]
    ELSE IF s.rej = 0
      THEN [ok |-> TRUE, s |-> [s EXCEPT !.hw = channel]]
      ELSE [ok |-> FALSE, s |-> [s EXCEPT !.rej = s.rej - 1]]

\* run_next_command with a loop that does not stop at the first started command.
RECURSIVE AvRunNextNoBreak(_, _)
AvRunNextNoBreak(s, p) ==
  IF p > NumProcs THEN s
  ELSE IF p \in alive /\ s.apps[p].pending_command
    THEN LET s1 == [s EXCEPT !.apps[p].pending_command = FALSE, !.cur = p]
             c  == AvCallDriver(s1, s1.apps[p].channel)
         IN  IF c.ok THEN AvRunNextNoBreak(c.s, p + 1)
             ELSE AvRunNextNoBreak([c.s EXCEPT !.cur = NoProc,
                                               !.dropped = @ \cup {p}],
                                   p + 1)
    ELSE AvRunNextNoBreak(s, p + 1)

\* run_next_command: the scan over apps.iter() (live processes in allocation
\* order; a grant never entered holds the Default record) from process p on.
RECURSIVE AvRunNextCommand(_, _)
AvRunNextCommand(s, p) ==
  IF p > NumProcs THEN s
  ELSE IF p \in alive /\ s.apps[p].pending_command
    THEN LET s1 == [s EXCEPT !.apps[p].pending_command = FALSE, !.cur = p]
             c  == AvCallDriver(s1, s1.apps[p].channel)
         IN  IF c.ok THEN c.s
             ELSE AvRunNextCommand([c.s EXCEPT !.cur = NoProc,
                                               !.dropped = @ \cup {p}],
                                   p + 1)
    ELSE AvRunNextCommand(s, p + 1)

\* enqueue_command(OneSample, channel, p): [ret, s].
AvEnqueueCommand(s, channel, p) ==
  IF channel < NumChannels
    THEN IF s.cur = NoProc
      THEN LET c  == AvCallDriver([s EXCEPT !.cur = p], channel)
               s2 == IF c.ok THEN c.s ELSE [c.s EXCEPT !.cur = NoProc]
           IN  [ret |-> "OK", s |-> AvRunNextCommand(s2, 1)]
      ELSE IF s.apps[p].pending_command
        THEN [ret |-> "BUSY", s |-> s]
        ELSE [ret |-> "OK",
              s |-> [s EXCEPT !.apps[p] =
                       [pending_command |-> TRUE, channel |-> channel]]]
    ELSE [ret |-> "NODEVICE", s |-> s]

AvCommit(s) ==
  /\ av_current_process' = s.cur
  /\ av_apps' = s.apps
  /\ av_hw' = s.hw
  /\ av_overlap' = s.overlap
  /\ av_dropped' = s.dropped

\* SyscallDriver::command 1 (single sample) from live process p.
AvCommandSample(p, channel, rej) ==
  /\ p \in alive
  /\ LET r == AvEnqueueCommand(AvState(rej), channel, p)
     IN  /\ AvCommit(r.s)
         /\ av_ret' = r.ret
  /\ av_upcall' = AvNoUpcall
  /\ av_queued' = IF channel < NumChannels /\ av_apps[p].pending_command
                    THEN [pid |-> p, slot |-> av_apps[p]]
                    ELSE AvNoQueued
  /\ UNCHANGED <<alive, av_stale, av_others>>

\* SyscallDriver::command 0 (driver check) from live process p.
AvCommandExists(p) ==
  /\ p \in alive
  /\ av_ret' = "OK"
  /\ av_upcall' = AvNoUpcall
  /\ av_queued' = AvNoQueued
  /\ av_dropped' = {}
  /\ UNCHANGED <<alive, av_current_process, av_apps, av_hw, av_overlap,
                 av_stale, av_others>>

\* hil::adc::Client::sample_ready, delivered for the sample in flight.
AvSampleReady(rej) ==
  /\ av_hw # NoChan
  /\ LET s0  == [AvState(rej) EXCEPT !.hw = NoChan]
         own == s0.cur
         ent == own # NoProc /\ own \in alive
         s1  == IF ent
                  THEN [s0 EXCEPT !.apps[own].pending_command = FALSE,
                                  !.cur = NoProc]
                  ELSE [s0 EXCEPT !.cur = NoProc]
     IN  /\ AvCommit(AvRunNextCommand(s1, 1))
         /\ av_upcall' = IF ent
                           THEN [pid |-> own, channel |-> s0.apps[own].channel]
                           ELSE AvNoUpcall
  /\ av_ret' = "NONE"
  /\ av_queued' = AvNoQueued
  /\ UNCHANGED <<alive, av_stale, av_others>>

AvInit ==
  /\ av_current_process = NoProc
  /\ av_apps = [p \in Procs |-> AppSysDefault]
  /\ av_hw = NoChan
  /\ av_overlap = FALSE
  /\ av_ret = "NONE"
  /\ av_upcall = AvNoUpcall
  /\ av_queued = AvNoQueued
  /\ av_dropped = {}
  /\ av_stale = {}

----------------------------------------------------------------------------
(* NonvolatileStorage *)

\* NonvolatileUser::Kernel in current_user.
Kernel == -1
\* The regions handed to NonvolatileStorage::new.
userspace_start_address == 2
userspace_length == 2
kernel_start_address == 1
kernel_length == 2
\* Length of the internal buffer.
BUF_LEN == 512
\* What a TakeCell or the storage driver holds: nothing, the capsule's
\* internal buffer, or one of the kernel client's buffers.
NoBuf == "none"
InternalBuf == "internal"
KernelBuf == "kernel"
\* The kernel client owns this many buffers, each of this length.
NumKernelBufs == 2
KernelBufLen == 2
BufLen(b) == IF b = InternalBuf THEN BUF_LEN ELSE KernelBufLen
Min(a, b) == IF a < b THEN a ELSE b

NvAppDefault ==
  [pending_command |-> FALSE, command |-> "UserspaceRead", offset |-> 0,
   length |-> 0]
NvKernelDefault ==
  [pending_command |-> FALSE, command |-> "KernelRead", buffer |-> NoBuf,
   length |-> 0, address |-> 0]
NvHwIdle ==
  [busy |-> FALSE, buf |-> NoBuf, user |-> NoProc, cmd |-> "none", addr |-> 0,
   len |-> 0, data |-> <<"none">>]

\* The driver state threaded through one handler; rej as in AvState.
NvState(rej) ==
  [cur |-> nv_current_user, apps |-> nv_apps, buffer |-> nv_buffer,
   kernel |-> nv_kernel, hw |-> nv_hw, client |-> nv_client,
   overlap |-> FALSE, data |-> nv_data, rej |-> rej]

\* self.driver.read / self.driver.write.  The buffer goes to the storage
\* driver; the HIL returns Result<(), ErrorCode>, so a rejected buffer does
\* not come back.  A driver with an operation in flight rejects the call.
NvDriverStart(s, buf, cmd, addr, len) ==
  IF s.hw.busy
    THEN [ok |-> FALSE, s |-> [s EXCEPT !.overlap = TRUE]]
    ELSE IF s.rej = 0
      THEN [ok |-> TRUE,
            s |-> [s EXCEPT !.hw = [busy |-> TRUE, buf |-> buf,
                                    user |-> s.cur, cmd |-> cmd,
                                    addr |-> addr, len |-> len,
                                    data |-> IF buf = InternalBuf THEN s.data
                                             ELSE <<"kernel">>]]]
      ELSE [ok |-> FALSE, s |-> [s EXCEPT !.rej = s.rej - 1]]

\* userspace_call_driver: [ret, s].
NvUserspaceCallDriver(s, command, offset, length) ==
  IF s.buffer = NoBuf THEN [ret |-> "RESERVE", s |-> s]
  ELSE LET b == s.buffer
           c == NvDriverStart([s EXCEPT !.buffer = NoBuf], b,
                              IF command = "UserspaceRead" THEN "read" ELSE "write",
                              offset + userspace_start_address,
                              Min(length, BufLen(b)))
       IN  [ret |-> IF c.ok THEN "OK" ELSE "HWERR", s |-> c.s]

\* A bounds check that looks at the offset only.
NvInBoundsOffsetOnly(command, offset, length) ==
  IF command \in {"UserspaceRead", "UserspaceWrite"}
    THEN offset < userspace_length
    ELSE /\ offset >= kernel_start_address
         /\ offset < kernel_start_address + kernel_length

\* The bounds check at the head of enqueue_command.
NvInBounds(command, offset, length) ==
  IF command \in {"UserspaceRead", "UserspaceWrite"}
    THEN ~(\/ offset >= userspace_length
           \/ length > userspace_length
           \/ offset + length > userspace_length)
    ELSE ~(\/ offset < kernel_start_address
           \/ offset >= kernel_start_address + kernel_length
           \/ length > kernel_length
           \/ offset + length > kernel_start_address + kernel_length)

\* enqueue_command that stores a request over an occupied pending slot.
NvEnqueueUserOverwrite(s, command, offset, length, p, allow_buf_len) ==
  IF ~NvInBounds(command, offset, length) THEN [ret |-> "INVAL", s |-> s]
  ELSE IF allow_buf_len = 0 \/ s.buffer = NoBuf THEN [ret |-> "RESERVE", s |-> s]
  ELSE IF s.cur = NoProc
    THEN NvUserspaceCallDriver(
           [s EXCEPT !.cur = p,
                     !.data = IF command = "UserspaceWrite" THEN <<"app", p>>
                              ELSE @],
           command, offset, Min(length, allow_buf_len))
    ELSE [ret |-> IF s.apps[p].pending_command THEN "NOMEM" ELSE "OK",
          s |-> [s EXCEPT !.apps[p] =
                   [pending_command |-> TRUE, command |-> command,
                    offset |-> offset, length |-> Min(length, allow_buf_len)]]]

\* enqueue_command, userspace branch, for live process p whose allowed
\* buffer for this command has length allow_buf_len: [ret, s].
NvEnqueueUser(s, command, offset, length, p, allow_buf_len) ==
  IF ~NvInBounds(command, offset, length) THEN [ret |-> "INVAL", s |-> s]
  ELSE IF allow_buf_len = 0 \/ s.buffer = NoBuf THEN [ret |-> "RESERVE", s |-> s]
  ELSE LET active_len == Min(length, allow_buf_len)
       IN  IF s.cur = NoProc
             THEN NvUserspaceCallDriver(
                    [s EXCEPT !.cur = p,
                              !.data = IF command = "UserspaceWrite"
                                         THEN <<"app", p>> ELSE @],
                    command, offset, active_len)
             ELSE IF s.apps[p].pending_command
               THEN [ret |-> "NOMEM", s |-> s]
               ELSE [ret |-> "OK",
                     s |-> [s EXCEPT !.apps[p] =
                              [pending_command |-> TRUE, command |-> command,
                               offset |-> offset, length |-> active_len]]]

\* enqueue_command, kernel branch: [ret, s].
NvEnqueueKernel(s, command, offset, length) ==
  IF ~NvInBounds(command, offset, length) THEN [ret |-> "INVAL", s |-> s]
  ELSE IF s.kernel.buffer = NoBuf THEN [ret |-> "NOMEM", s |-> s]
  ELSE LET kernel_buffer == s.kernel.buffer
           s1 == [s EXCEPT !.kernel.buffer = NoBuf]
           active_len == Min(length, BufLen(kernel_buffer))
       IN  IF s1.cur = NoProc
             THEN LET c == NvDriverStart([s1 EXCEPT !.cur = Kernel], kernel_buffer,
                             IF command = "KernelRead" THEN "read" ELSE "write",
                             offset, active_len)
                  IN  [ret |-> IF c.ok THEN "OK" ELSE "HWERR", s |-> c.s]
             ELSE IF s1.kernel.pending_command
               THEN [ret |-> "NOMEM", s |-> s1]
               ELSE [ret |-> "OK",
                     s |-> [s1 EXCEPT !.kernel =
                              [pending_command |-> TRUE, command |-> command,
                               buffer |-> kernel_buffer, length |-> active_len,
                               address |-> offset]]]

\* hil::nonvolatile_storage::NonvolatileStorage::read / write of the capsule:
\* the kernel client passes one of the buffers it holds, which replaces
\* whatever kernel_buffer held.
NvKernelReadWrite(s, command, address, length) ==
  NvEnqueueKernel([s EXCEPT !.client = s.client - 1,
                            !.kernel.buffer = KernelBuf],
                  command, address, length)

\* check_queue, the loop over apps.iter() from process p on.
RECURSIVE NvCheckApps(_, _)
NvCheckApps(s, p) ==
  IF p > NumProcs THEN s
  ELSE IF p \in alive /\ s.apps[p].pending_command
    THEN LET a == s.apps[p]
             r == NvUserspaceCallDriver(
                    [s EXCEPT !.apps[p].pending_command = FALSE, !.cur = p],
                    a.command, a.offset, a.length)
         IN  IF r.ret = "OK" THEN r.s ELSE NvCheckApps(r.s, p + 1)
    ELSE NvCheckApps(s, p + 1)

\* check_queue.
NvCheckQueue(s) ==
  IF s.kernel.pending_command
    THEN IF s.kernel.buffer = NoBuf THEN s
         ELSE NvDriverStart(
                [s EXCEPT !.kernel.buffer = NoBuf,
                          !.kernel.pending_command = FALSE, !.cur = Kernel],
                s.kernel.buffer,
                IF s.kernel.command = "KernelRead" THEN "read" ELSE "write",
                s.kernel.address, s.kernel.length).s
    ELSE NvCheckApps(s, 1)

\* What the kernel client does inside its read_done / write_done callback.
NvNoReissue == [command |-> "none", address |-> 0, length |-> 0]

\* read_done / write_done up to the call of check_queue.  The kernel client
\* gets its buffer back and may issue its next request with it from inside
\* the callback; a process that still resolves gets the upcall.
NvResolveUser(s, reissue) ==
  LET b    == s.hw.buf
      user == s.cur
      s0   == [s EXCEPT !.hw = NvHwIdle, !.cur = NoProc,
                       !.data = IF b = InternalBuf /\ s.hw.cmd = "read"
                                  THEN <<"storage">> ELSE @]
  IN  IF user = Kernel
        THEN LET s1 == [s0 EXCEPT !.client = s0.client + 1]
             IN  IF reissue.command = "none" THEN s1
                 ELSE NvKernelReadWrite(s1, reissue.command,
                                        reissue.address, reissue.length).s
      ELSE IF user \in alive
        THEN [s0 EXCEPT !.buffer = b]
        ELSE s0

NvCommit(s) ==
  /\ nv_current_user' = s.cur
  /\ nv_apps' = s.apps
  /\ nv_buffer' = s.buffer
  /\ nv_kernel' = s.kernel
  /\ nv_hw' = s.hw
  /\ nv_client' = s.client
  /\ nv_overlap' = s.overlap
  /\ nv_data' = s.data

\* SyscallDriver::command 2 (read) / 3 (write) from live process p.
NvCommand(p, command, offset, length, allow_buf_len, rej) ==
  /\ p \in alive
  /\ \E r \in {NvEnqueueUser(NvState(rej), command, offset, length, p,
                              allow_buf_len)} :
       NvCommit(r.s) /\ nv_ret' = r.ret
  /\ UNCHANGED <<alive, nv_others>>

\* The kernel client calls read / write with a buffer it holds.
NvKernelRequest(command, address, length, rej) ==
  /\ nv_client > 0
  /\ \E r \in {NvKernelReadWrite(NvState(rej), command, address, length)} :
       NvCommit(r.s) /\ nv_ret' = r.ret
  /\ UNCHANGED <<alive, nv_others>>

\* NonvolatileStorageClient::read_done / write_done from the storage driver.
NvDone(reissue, rej) ==
  /\ nv_hw.busy
  /\ \E s \in {NvCheckQueue(NvResolveUser(NvState(rej), reissue))} :
       NvCommit(s)
  /\ nv_ret' = "NONE"
  /\ UNCHANGED <<alive, nv_others>>

NvInit ==
  /\ nv_current_user = NoProc
  /\ nv_apps = [p \in Procs |-> NvAppDefault]
  /\ nv_buffer = InternalBuf
  /\ nv_kernel = NvKernelDefault
  /\ nv_hw = NvHwIdle
  /\ nv_client = NumKernelBufs
  /\ nv_overlap = FALSE
  /\ nv_data = <<"zeros">>
  /\ nv_ret = "NONE"

----------------------------------------------------------------------------
----------------------------------------------------------------------------
(* MuxPwm *)

\* The PwmPinUsers created for the mux, each with a pin of its own.
NumPwmUsers == 3
PwmUsers == 1..NumPwmUsers
NoUser == 0

\* enum Operation, and an empty operation cell.
PwmNone == [kind |-> "None", frequency_hz |-> 0, duty_cycle |-> 0]
PwmStopOp == [kind |-> "Stop", frequency_hz |-> 0, duty_cycle |-> 0]
Simple(frequency_hz, duty_cycle) ==
  [kind |-> "Simple", frequency_hz |-> frequency_hz, duty_cycle |-> duty_cycle]
PwmPinOff == [on |-> FALSE, frequency_hz |-> 0, duty_cycle |-> 0]

\* The mux state threaded through one start()/stop(); fails is the set of
\* hardware calls of this handler (by position) that return an error.
PwmState(fails) ==
  [devices |-> pwm_devices, inflight |-> pwm_inflight,
   operation |-> pwm_operation, pins |-> pwm_pins, calls |-> <<>>,
   fails |-> fails]

\* self.pwm.start(&node.pin, frequency_hz, duty_cycle); the result is dropped.
PwmHwStart(s, node, op) ==
  LET n == Len(s.calls) + 1
      c == [call |-> "start", pin |-> node, frequency_hz |-> op.frequency_hz,
            duty_cycle |-> op.duty_cycle]
  IN  [s EXCEPT !.calls = Append(s.calls, c),
                !.pins[node] = IF n \in s.fails THEN @
                               ELSE [on |-> TRUE,
                                     frequency_hz |-> op.frequency_hz,
                                     duty_cycle |-> op.duty_cycle]]

\* self.pwm.stop(&node.pin); the result is dropped.
PwmHwStop(s, node) ==
  LET n == Len(s.calls) + 1
      c == [call |-> "stop", pin |-> node, frequency_hz |-> 0, duty_cycle |-> 0]
  IN  [s EXCEPT !.calls = Append(s.calls, c),
                !.pins[node] = IF n \in s.fails THEN @ ELSE PwmPinOff]

\* self.devices.iter().find(|node| node.operation.is_some()), from position
\* i of the list on: the node found, or NoUser.
RECURSIVE PwmFindSimple(_, _)
PwmFindSimple(s, i) ==
  IF i > Len(s.devices) THEN NoUser
  ELSE IF s.operation[s.devices[i]].kind = "Simple" THEN s.devices[i]
  ELSE PwmFindSimple(s, i + 1)

RECURSIVE PwmFind(_, _)
PwmFind(s, i) ==
  IF i > Len(s.devices) THEN NoUser
  ELSE IF s.operation[s.devices[i]] # PwmNone THEN s.devices[i]
  ELSE PwmFind(s, i + 1)

\* do_next_op that, after the owner's Stop, does not go on to the queue.
RECURSIVE PwmDoNextOpNoChain(_)
PwmDoNextOpNoChain(s) ==
  IF s.inflight = NoUser
    THEN LET node == PwmFind(s, 1)
         IN  IF node = NoUser THEN s
             ELSE LET operation == s.operation[node]
                      s1 == [s EXCEPT !.operation[node] = PwmNone]
                  IN  IF operation.kind = "Simple"
                        THEN [PwmHwStart(s1, node, operation)
                                EXCEPT !.inflight = node]
                        ELSE PwmDoNextOpNoChain(s1)
    ELSE LET node == s.inflight
             operation == s.operation[node]
             s1 == [s EXCEPT !.operation[node] = PwmNone]
         IN  IF operation = PwmNone THEN s
             ELSE IF operation.kind = "Simple"
               THEN PwmHwStart(s1, node, operation)
               ELSE [PwmHwStop(s1, node) EXCEPT !.inflight = NoUser]

\* MuxPwm::do_next_op.
RECURSIVE PwmDoNextOp(_)
PwmDoNextOp(s) ==
  IF s.inflight = NoUser
    THEN LET node == PwmFind(s, 1)
         IN  IF node = NoUser THEN s
             ELSE LET operation == s.operation[node]
                      s1 == [s EXCEPT !.operation[node] = PwmNone]
                  IN  IF operation.kind = "Simple"
                        THEN [PwmHwStart(s1, node, operation)
                                EXCEPT !.inflight = node]
                        ELSE PwmDoNextOp(s1)
    ELSE LET node == s.inflight
             operation == s.operation[node]
             s1 == [s EXCEPT !.operation[node] = PwmNone]
         IN  IF operation = PwmNone THEN s
             ELSE IF operation.kind = "Simple"
               THEN PwmDoNextOp(PwmHwStart(s1, node, operation))
               ELSE PwmDoNextOp([PwmHwStop(s1, node)
                                   EXCEPT !.inflight = NoUser])

PwmCommit(s) ==
  /\ pwm_inflight' = s.inflight
  /\ pwm_operation' = s.operation
  /\ pwm_pins' = s.pins
  /\ pwm_calls' = s.calls
  /\ UNCHANGED pwm_devices

PwmRegistered(u) == \E i \in 1..Len(pwm_devices) : pwm_devices[i] = u

\* PwmPinUser::add_to_mux, called once for a user, before the user is handed
\* to the capsule that drives it.
PwmAddToMux(u) ==
  /\ ~PwmRegistered(u)
  /\ pwm_devices' = <<u>> \o pwm_devices
  /\ pwm_calls' = <<>>
  /\ pwm_ret' = "NONE"
  /\ UNCHANGED <<pwm_inflight, pwm_operation, pwm_pins, pwm_others>>

\* PwmPin::start of user u.
PwmStart(u, frequency_hz, duty_cycle, fails) ==
  /\ PwmRegistered(u)
  /\ PwmCommit(PwmDoNextOp([PwmState(fails) EXCEPT
                              !.operation[u] = Simple(frequency_hz, duty_cycle)]))
  /\ pwm_ret' = "OK"
  /\ UNCHANGED pwm_others

\* PwmPin::stop of user u.
PwmStop(u, fails) ==
  /\ PwmRegistered(u)
  /\ PwmCommit(PwmDoNextOp([PwmState(fails) EXCEPT !.operation[u] = PwmStopOp]))
  /\ pwm_ret' = "OK"
  /\ UNCHANGED pwm_others

PwmInit ==
  /\ pwm_devices = <<>>
  /\ pwm_inflight = NoUser
  /\ pwm_operation = [u \in PwmUsers |-> PwmNone]
  /\ pwm_pins = [u \in PwmUsers |-> PwmPinOff]
  /\ pwm_calls = <<>>
  /\ pwm_ret = "NONE"

----------------------------------------------------------------------------
(* AdcDedicated *)
(* A sample is not followed by its value: an ADC buffer stands for the     *)
(* samples the ADC last wrote into it, and a copy is recorded by the       *)
(* buffer it reads, the number of samples and where they go.               *)

\* BUF_LEN, the length of each ADC buffer in samples (128 on the boards).
AdcBufLen == 2
\* The three buffers handed to AdcDedicated::new; an empty TakeCell.
AdcBufs == {1, 2, 3}
NoBuffer == 0
\* usize counters, modulo 2^32: a value in the upper half of the range is
\* written as the negative number it wraps to (2^32 - k as -k), so that +
\* and - on counters near 0 are the wrapping ones.  ULess is the unsigned
\* order; a - b underflows when ULess(a, b), a + b overflows when
\* ULess(a + b, a).
ULess(a, b) == IF (a < 0) = (b < 0) THEN a < b ELSE b < 0
UMin(a, b) == IF ULess(a, b) THEN a ELSE b

AdAppDefault ==
  [samples_remaining |-> 0, samples_outstanding |-> 0,
   next_samples_outstanding |-> 0, using_app_buf0 |-> TRUE,
   app_buf_offset |-> 0]

\* The driver state threaded through one handler.  hwf and checked are
\* inputs: the calls of the ADC that fail in this handler, and whether the
\* build panics on arithmetic overflow (else it wraps).
AdState(hwf, checked) ==
  [active |-> ad_active, mode |-> ad_mode, pid |-> ad_processid,
   apps |-> ad_apps, cells |-> ad_cells, hw |-> ad_hw, panic |-> FALSE,
   cb |-> FALSE, hwf |-> hwf, checked |-> checked, channel |-> ad_channel,
   copy |-> [buf |-> 0, prov |-> 0, from |-> 0, n |-> 0, at |-> 0, to |-> 0],
   up |-> <<>>]

\* replace_buffer that always stores into adc_buf3.
AdReplaceLast(s, buf) == [s EXCEPT !.cells[3] = buf]

\* replace_buffer.
AdReplaceBuffer(s, buf) ==
  IF s.cells[3] = NoBuffer THEN [s EXCEPT !.cells[3] = buf]
  ELSE IF s.cells[2] = NoBuffer
    THEN [s EXCEPT !.cells[3] = buf, !.cells[2] = s.cells[3]]
    ELSE [s EXCEPT !.cells[3] = buf, !.cells[1] = s.cells[3]]

\* replace_buffer for each buffer the ADC hands back, in order.
RECURSIVE AdReplaceAll(_, _)
AdReplaceAll(s, bufs) ==
  IF bufs = <<>> THEN s
  ELSE AdReplaceAll(AdReplaceBuffer(s, Head(bufs).buf), Tail(bufs))

\* take_and_map_buffer: the cell it takes from (0: all three are empty).
AdTakeIndex(s) ==
  IF s.cells[1] # NoBuffer THEN 1
  ELSE IF s.cells[2] # NoBuffer THEN 2
  ELSE IF s.cells[3] # NoBuffer THEN 3
  ELSE 0

\* The closure of take_and_map_buffer from cell i: provide_buffer for
\* request_len samples, and replace_buffer when the ADC hands the buffer
\* back.
AdProvideBuffer(s, i, request_len) ==
  LET s1 == [s EXCEPT !.cells[i] = NoBuffer, !.copy.prov = s.cells[i]]
  IN  IF "provide" \in s.hwf \/ s.hw.mode # "highspeed"
        THEN AdReplaceBuffer(s1, s.cells[i])
        ELSE [s1 EXCEPT !.hw.bufs =
                Append(@, [buf |-> s.cells[i], len |-> request_len])]

\* self.adc.stop_sampling().
AdHwStop(s) ==
  IF "stop" \in s.hwf THEN s ELSE [s EXCEPT !.hw.mode = "idle"]

\* self.adc.retrieve_buffers() and replace_buffer for what it returns.
AdRetrieveBuffers(s) ==
  IF "retrieve" \in s.hwf THEN s
  ELSE AdReplaceAll([s EXCEPT !.hw.bufs = <<>>], s.hw.bufs)

\* "failure, clear state" at the end of sample_buffer(_continuous).
AdClearState(s) ==
  LET s1 == [s EXCEPT !.active = FALSE, !.mode = "NoMode"]
  IN  IF s1.pid # NoProc /\ s1.pid \in alive
        THEN [s1 EXCEPT !.apps[s1.pid].samples_remaining = 0,
                        !.apps[s1.pid].samples_outstanding = 0]
        ELSE [s1 EXCEPT !.pid = NoProc]

\* sample / sample_continuous: [ret, s].
AdSample(s, channel, mode) ==
  IF s.active THEN [ret |-> "BUSY", s |-> s]
  ELSE IF channel >= NumChannels THEN [ret |-> "INVAL", s |-> s]
  ELSE IF "start" \in s.hwf \/ s.hw.mode # "idle"
    THEN [ret |-> "HWERR", s |-> [s EXCEPT !.channel = channel]]
    ELSE [ret |-> "OK",
          s |-> [s EXCEPT !.active = TRUE, !.mode = mode,
                          !.channel = channel,
                          !.hw.mode = IF mode = "SingleSample" THEN "single"
                                      ELSE "continuous"]]

\* Counters that take only the first of the two buffers given to the ADC
\* as outstanding.
AdFirstRequestOneBuffer(app, samples_needed) ==
  LET out == Min(samples_needed, AdcBufLen)
  IN  [app EXCEPT !.using_app_buf0 = TRUE,
                  !.samples_remaining = samples_needed - out,
                  !.samples_outstanding = out]

\* The counters sample_buffer / sample_buffer_continuous set for the owner:
\* the two buffers are asked for min(samples_needed, 2 * BUF_LEN) samples.
AdFirstRequest(app, samples_needed) ==
  LET out == Min(samples_needed, 2 * AdcBufLen)
  IN  [app EXCEPT !.using_app_buf0 = TRUE,
                  !.samples_remaining = samples_needed - out,
                  !.samples_outstanding = out]

\* sample_buffer / sample_buffer_continuous, the first statements inside
\* the owner's grant.
AdEnterStart(s, channel) ==
  [s EXCEPT !.channel = channel, !.apps[s.pid].app_buf_offset = 0]

\* sample_buffer / sample_buffer_continuous for the owner s.pid, who has
\* allowed buffers of allow[1] and allow[2] bytes: [ret, s].
AdSampleBuffer(s, channel, mode, allow) ==
  IF s.active THEN [ret |-> "BUSY", s |-> s]
  ELSE IF channel >= NumChannels THEN [ret |-> "INVAL", s |-> s]
  ELSE IF allow[1] = 0 \/ (mode = "ContinuousBuffer" /\ allow[2] = 0)
    THEN [ret |-> "NOMEM", s |-> s]
  ELSE IF s.cells[1] = NoBuffer
    THEN [ret |-> "BUSY", s |-> AdClearState(AdEnterStart(s, channel))]
  ELSE IF s.cells[2] = NoBuffer
    THEN [ret |-> "BUSY",
          s |-> AdClearState([AdEnterStart(s, channel)
                                EXCEPT !.cells[1] = NoBuffer])]
  ELSE LET samples_needed == allow[1] \div 2
           len1 == Min(samples_needed, AdcBufLen)
           len2 == IF samples_needed > AdcBufLen
                     THEN Min(samples_needed - AdcBufLen, AdcBufLen)
                   ELSE IF mode = "ContinuousBuffer"
                     THEN Min(allow[2] \div 2, AdcBufLen)
                   ELSE 0
           bufs == <<[buf |-> s.cells[1], len |-> len1],
                     [buf |-> s.cells[2], len |-> len2]>>
           s1   == [AdEnterStart(s, channel) EXCEPT
                      !.cells[1] = NoBuffer, !.cells[2] = NoBuffer,
                      !.apps[s.pid] = AdFirstRequest(@, samples_needed)]
       IN  IF "start" \in s.hwf \/ s.hw.mode # "idle"
             THEN [ret |-> "HWERR", s |-> AdClearState(AdReplaceAll(s1, bufs))]
             ELSE [ret |-> "OK",
                   s |-> [s1 EXCEPT !.active = TRUE, !.mode = mode,
                            !.hw = [mode |-> "highspeed",
                                    bufs |-> s.hw.bufs \o bufs]]]

\* A stop_sampling that stops the ADC and leaves active and mode as they
\* are.
AdStopSamplingHardwareOnly(s) ==
  IF ~s.active \/ s.mode = "NoMode" THEN [ret |-> "OK", s |-> s]
  ELSE IF "stop" \in s.hwf \/ "retrieve" \in s.hwf
    THEN [ret |-> "HWERR", s |-> s]
    ELSE [ret |-> "OK", s |-> AdRetrieveBuffers(AdHwStop(s))]

\* stop_sampling, called by the owner s.pid (a live process): [ret, s].
AdStopSampling(s) ==
  IF ~s.active \/ s.mode = "NoMode" THEN [ret |-> "OK", s |-> s]
  ELSE LET s1 == [s EXCEPT !.active = FALSE, !.mode = "NoMode",
                             !.apps[s.pid].app_buf_offset = 0]
       IN  IF "stop" \in s.hwf THEN [ret |-> "HWERR", s |-> s1]
           ELSE IF "retrieve" \in s.hwf
             THEN [ret |-> "HWERR", s |-> AdHwStop(s1)]
             ELSE [ret |-> "OK", s |-> AdRetrieveBuffers(AdHwStop(s1))]

\* samples_ready: a take_and_map_buffer closure that asks for the first
\* samples of the app buffer after the one being filled.
AdRequestNext(s, own, samples_needed) ==
  LET i == AdTakeIndex(s)
  IN  IF i = 0 THEN s
      ELSE AdProvideBuffer(
             [s EXCEPT !.apps[own].next_samples_outstanding =
                          Min(samples_needed, AdcBufLen)],
             i, Min(samples_needed, AdcBufLen))

\* samples_ready: a take_and_map_buffer closure that asks for more samples
\* of the app buffer being filled.
AdRequestMore(s, own) ==
  LET i == AdTakeIndex(s)
      request_len == UMin(s.apps[own].samples_remaining, AdcBufLen)
      out == s.apps[own].samples_outstanding + request_len
  IN  IF i = 0 THEN s
      ELSE IF s.checked /\ ULess(out, s.apps[own].samples_outstanding)
        THEN [s EXCEPT !.panic = TRUE]
      ELSE AdProvideBuffer(
             [s EXCEPT !.apps[own].samples_remaining = @ - request_len,
                       !.apps[own].samples_outstanding = out],
             i, request_len)

\* samples_ready, the accounting for the live owner own, who has allowed
\* buffers of allow[1] and allow[2] bytes; s.cb is perform_callback.
AdAccount(s, own, length, allow) ==
  LET app      == s.apps[own]
      use0     == app.using_app_buf0
      cur_len  == allow[IF use0 THEN 1 ELSE 2] \div 2
      next_len == allow[IF use0 THEN 2 ELSE 1] \div 2
      out      == app.samples_outstanding - length
      s1       == [s EXCEPT !.apps[own].samples_outstanding = out]
  IN  IF s.checked /\ ULess(app.samples_outstanding, length)
        THEN [s EXCEPT !.panic = TRUE]
      ELSE IF app.samples_remaining # 0 THEN AdRequestMore(s1, own)
      ELSE IF out # 0
        THEN IF s.mode = "ContinuousBuffer"
               THEN AdRequestNext(s1, own, next_len)
               ELSE s1
      ELSE IF s.mode # "ContinuousBuffer" THEN [s1 EXCEPT !.cb = TRUE]
      ELSE IF s.checked /\ ULess(next_len, app.next_samples_outstanding)
        THEN [s EXCEPT !.panic = TRUE]
      ELSE LET rem == next_len - app.next_samples_outstanding
               s2  == [s1 EXCEPT !.cb = TRUE,
                         !.apps[own].samples_remaining = rem,
                         !.apps[own].samples_outstanding =
                            app.next_samples_outstanding,
                         !.apps[own].using_app_buf0 = ~use0]
           IN  IF rem = 0 THEN AdRequestNext(s2, own, cur_len)
               ELSE AdRequestMore(s2, own)

\* samples_ready, "unexpected_state": the operation was cancelled or the
\* owner is gone.
AdUnexpectedStateKeepOwner(s) ==
  AdRetrieveBuffers(AdHwStop([s EXCEPT !.active = FALSE, !.mode = "NoMode"]))

AdUnexpectedState(s) ==
  LET s1 == [s EXCEPT !.active = FALSE, !.mode = "NoMode",
                      !.pid = IF @ \in alive THEN @ ELSE NoProc]
      s2 == IF s1.pid = NoProc THEN s1
            ELSE [s1 EXCEPT !.apps[s1.pid].app_buf_offset = 0]
  IN  AdRetrieveBuffers(AdHwStop(s2))

\* samples_ready, after the accounting: the copy of the samples out of
\* buffer_with_samples (the cell adc_buf3, as it is by then) into the
\* allowed buffer `to`, of `bytes` bytes, that was in use when the handler
\* began, and the upcall when s.cb.
AdCopyOut(s, own, length, to, bytes) ==
  LET skip_amt == s.apps[own].app_buf_offset \div 2
      chunks   == (bytes + 1) \div 2
      n        == IF s.cells[3] = NoBuffer \/ skip_amt >= chunks THEN 0
                  ELSE Min(Min(chunks - skip_amt, AdcBufLen), length)
      s1 == [s EXCEPT !.copy.from = s.cells[3], !.copy.n = n,
                      !.copy.at = skip_amt, !.copy.to = to,
                      !.apps[own].app_buf_offset = @ + length * 2]
  IN  IF ~s.cb THEN s1
      ELSE [s1 EXCEPT !.up = <<s.mode, bytes \div 2, s.channel % 256, to>>,
                      !.apps[own].app_buf_offset = 0]

\* samples_ready for buffer buf with `length` samples.
AdSamplesReadyBody(s, buf, length, allow) ==
  LET s0 == [AdReplaceBuffer(s, buf) EXCEPT !.copy.buf = buf]
  IN  IF ~(s0.active /\ s0.mode \in {"SingleBuffer", "ContinuousBuffer"})
        THEN AdUnexpectedState(s0)
      ELSE IF s0.pid = NoProc THEN s0
      ELSE IF s0.pid \notin alive THEN AdUnexpectedState(s0)
      ELSE LET to == IF s0.apps[s0.pid].using_app_buf0 THEN 1 ELSE 2
               s1 == AdAccount(s0, s0.pid, length, allow)
               s2 == AdCopyOut(s1, s0.pid, length, to, allow[to])
           IN  IF s1.panic THEN s1
               ELSE IF ~s2.cb \/ s2.mode # "SingleBuffer" THEN s2
               ELSE AdRetrieveBuffers(
                      AdHwStop([s2 EXCEPT !.active = FALSE,
                                          !.mode = "NoMode"]))

\* A handler that panics does not return: nothing of this driver runs
\* afterwards, and its state stays what it was before the call.
AdCommit(s) ==
  IF s.panic
    THEN /\ ad_panicked' = TRUE
         /\ ad_copy' = AdState({}, FALSE).copy
         /\ ad_upcall' = <<>>
         /\ UNCHANGED <<ad_active, ad_mode, ad_processid, ad_apps, ad_cells,
                        ad_hw, ad_channel>>
    ELSE /\ ad_active' = s.active
         /\ ad_channel' = s.channel
         /\ ad_copy' = s.copy
         /\ ad_upcall' = s.up
         /\ ad_mode' = s.mode
         /\ ad_processid' = s.pid
         /\ ad_apps' = s.apps
         /\ ad_cells' = s.cells
         /\ ad_hw' = s.hw
         /\ UNCHANGED ad_panicked

\* An ownership check that lets any caller in while the driver is inactive.
AdMayOwnInactive(p) ==
  \/ ad_processid = NoProc
  \/ IF ad_active THEN ad_processid = p ELSE TRUE

\* SyscallDriver::command: match_or_empty_or_nonexistant for caller p.
AdMayOwn(p) ==
  \/ ad_processid = NoProc
  \/ IF ad_active THEN ad_processid = p
     ELSE ad_processid \notin alive \/ ad_processid = p

\* SyscallDriver::command 0..5 from live process p.
AdCommand(p, command_num, channel, hwf) ==
  /\ ~ad_panicked
  /\ p \in alive
  /\ IF ~AdMayOwn(p)
       THEN /\ ad_ret' = "NOMEM"
            /\ ad_copy' = AdState({}, FALSE).copy
            /\ ad_upcall' = <<>>
            /\ UNCHANGED <<ad_active, ad_mode, ad_processid, ad_apps,
                           ad_cells, ad_hw, ad_channel, ad_stopped,
                           ad_panicked>>
       ELSE \E r \in
              {LET s == [AdState(hwf, FALSE) EXCEPT !.pid = p]
               IN  CASE command_num = 0 -> [ret |-> "OK", s |-> s]
                     [] command_num = 1 -> AdSample(s, channel, "SingleSample")
                     [] command_num = 2 ->
                          AdSample(s, channel, "ContinuousSample")
                     [] command_num = 3 ->
                          AdSampleBuffer(s, channel, "SingleBuffer",
                                         ad_allow[p])
                     [] command_num = 4 ->
                          AdSampleBuffer(s, channel, "ContinuousBuffer",
                                         ad_allow[p])
                     [] command_num = 5 -> AdStopSampling(s)} :
              /\ AdCommit(r.s)
              /\ ad_ret' = r.ret
              /\ ad_stopped' = IF r.ret # "OK" \/ command_num = 0
                                 THEN ad_stopped
                                 ELSE command_num = 5
  /\ UNCHANGED <<alive, ad_allow, ad_others>>

\* hil::adc::Client::sample_ready, from an ADC that is sampling.
AdSampleReady(hwf) ==
  /\ ~ad_panicked
  /\ ad_hw.mode \in {"single", "continuous"}
  /\ LET s0  == [AdState(hwf, FALSE) EXCEPT
                   !.hw.mode = IF @ = "single" THEN "idle" ELSE @]
         own == s0.pid # NoProc /\ s0.pid \in alive
         s1  == IF own THEN s0 ELSE [s0 EXCEPT !.pid = NoProc]
     IN  IF s0.active /\ s0.mode = "SingleSample" /\ own
           THEN AdCommit([s1 EXCEPT !.active = FALSE, !.mode = "NoMode",
                                    !.up = <<s0.mode, s0.channel>>])
         ELSE IF s0.active /\ s0.mode = "ContinuousSample" /\ own
           THEN AdCommit([s1 EXCEPT !.up = <<s0.mode, s0.channel>>])
         ELSE AdCommit(AdHwStop(
                [(IF s0.active /\ s0.mode \in {"SingleSample",
                                               "ContinuousSample"}
                    THEN s1 ELSE s0)
                   EXCEPT !.active = FALSE, !.mode = "NoMode"]))
  /\ ad_ret' = "NONE"
  /\ UNCHANGED <<alive, ad_allow, ad_stopped, ad_others>>

\* The counters of the record are within AdMaxCount of 0, on either side
\* (the model follows an operation no further).
AdMaxCount == 6
AdNear(app) ==
  \A f \in {"samples_remaining", "samples_outstanding",
            "next_samples_outstanding"} :
    -AdMaxCount <= app[f] /\ app[f] <= AdMaxCount

\* hil::adc::HighSpeedClient::samples_ready: the ADC returns the buffer it
\* has held longest, with the number of samples it was asked for.
AdSamplesReady(hwf, checked) ==
  /\ ~ad_panicked
  /\ ad_hw.mode = "highspeed"
  /\ ad_hw.bufs # <<>>
  /\ ad_processid # NoProc => AdNear(ad_apps[ad_processid])
  /\ \E s \in {AdSamplesReadyBody(
                 [AdState(hwf, checked) EXCEPT !.hw.bufs = Tail(@)],
                 Head(ad_hw.bufs).buf, Head(ad_hw.bufs).len,
                 IF ad_processid = NoProc THEN <<0, 0>>
                 ELSE ad_allow[ad_processid])} :
       AdCommit(s)
  /\ ad_ret' = "NONE"
  /\ UNCHANGED <<alive, ad_allow, ad_stopped, ad_others>>

\* Process p allows the driver two buffers, of pair[1] and pair[2] bytes.
AdAllow(p, pair) ==
  /\ p \in alive
  /\ ad_allow' = [ad_allow EXCEPT ![p] = pair]
  /\ ad_copy' = AdState({}, FALSE).copy
  /\ ad_upcall' = <<>>
  /\ UNCHANGED <<alive, ad_active, ad_mode, ad_processid, ad_apps, ad_cells,
                 ad_hw, ad_channel, ad_ret, ad_stopped, ad_panicked,
                 ad_others>>

AdInit ==
  /\ ad_active = FALSE
  /\ ad_mode = "NoMode"
  /\ ad_processid = NoProc
  /\ ad_apps = [p \in Procs |-> AdAppDefault]
  /\ ad_cells = <<1, 2, 3>>
  /\ ad_hw = [mode |-> "idle", bufs |-> <<>>]
  /\ ad_allow = [p \in Procs |-> <<0, 0>>]
  /\ ad_channel = 0
  /\ ad_copy = [buf |-> 0, prov |-> 0, from |-> 0, n |-> 0, at |-> 0,
                to |-> 0]
  /\ ad_upcall = <<>>
  /\ ad_stopped = FALSE
  /\ ad_ret = "NONE"
  /\ ad_panicked = FALSE

----------------------------------------------------------------------------
(* TextScreen *)

\* Length of the buffer handed to TextScreen::new.
TsBufLen == 2

TsAppDefault ==
  [pending_command |-> FALSE, write_len |-> 0, command |-> "Idle",
   data1 |-> 1, data2 |-> 0]
TsNoQueued == [pid |-> NoProc, slot |-> TsAppDefault]

\* The driver state threaded through one handler.  rej: as in AvState.
\* allow[p]: length of the read-only buffer process p has allowed when the
\* handler runs.  panic: an index went out of bounds.
TsState(rej, allow) ==
  [cur |-> ts_current_app, apps |-> ts_apps, buffer |-> ts_buffer,
   hw |-> ts_hw, overlap |-> FALSE, rej |-> rej, allow |-> allow,
   panic |-> FALSE, up |-> {}]

\* A call of the screen, print() (kind "write") or any other (kind
\* "command"): a screen with an operation in flight rejects it.
TsScreenCall(s, kind) ==
  IF s.hw # "none"
    THEN [ok |-> FALSE, s |-> [s EXCEPT !.overlap = TRUE]]
    ELSE IF s.rej = 0
      THEN [ok |-> TRUE, s |-> [s EXCEPT !.hw = kind]]
      ELSE [ok |-> FALSE, s |-> [s EXCEPT !.rej = s.rej - 1]]

\* write_complete that does not put the buffer back.
TsReclaimDrop(s) == [s EXCEPT !.hw = "none"]

\* The screen hands the buffer back in write_complete: self.buffer.replace.
TsReclaim(s) == [s EXCEPT !.hw = "none", !.buffer = TRUE]

RECURSIVE TsDoCommand(_)
RECURSIVE TsRunNextCommand(_, _)

\* do_command: [ret, s].
TsDoCommand(s) ==
  IF s.cur = NoProc THEN [ret |-> "FAIL", s |-> s]
  ELSE IF s.cur \notin alive THEN [ret |-> "NOAPP", s |-> s]
  ELSE LET app == s.apps[s.cur]
       IN  CASE app.command = "GetResolution" ->
                  [ret |-> "OK",
                   s |-> TsRunNextCommand(
                           [s EXCEPT !.apps[s.cur].pending_command = FALSE,
                                     !.up = @ \cup {s.cur}], 1)]
             [] app.command = "Write" ->
                  IF app.data1 > 0
                    THEN LET s1 == [s EXCEPT !.apps[s.cur].write_len = app.data1]
                             len == Min(app.data1, TsBufLen)
                         IN  IF ~s1.buffer THEN [ret |-> "BUSY", s |-> s1]
                             ELSE IF s1.allow[s1.cur] < len
                               THEN [ret |-> "PANIC",
                                     s |-> [s1 EXCEPT !.buffer = FALSE,
                                                      !.panic = TRUE]]
                             ELSE LET c == TsScreenCall(
                                             [s1 EXCEPT !.buffer = FALSE], "write")
                                  IN  IF c.ok THEN [ret |-> "OK", s |-> c.s]
                                      ELSE [ret |-> "HWERR",
                                            s |-> [c.s EXCEPT !.buffer = TRUE]]
                    ELSE [ret |-> "NOMEM", s |-> s]
             [] app.command = "Idle" -> [ret |-> "NOSUPPORT", s |-> s]
             [] OTHER ->
                  LET c == TsScreenCall(s, "command")
                  IN  [ret |-> IF c.ok THEN "OK" ELSE "HWERR", s |-> c.s]

\* run_next_command that leaves a candidate's pending flag set when its
\* command fails.
RECURSIVE TsRunNextRequeue(_, _)
TsRunNextRequeue(s, p) ==
  IF p > NumProcs \/ s.panic THEN s
  ELSE IF p \in alive /\ s.apps[p].pending_command
    THEN LET r == TsDoCommand([s EXCEPT !.apps[p].pending_command = FALSE,
                                       !.cur = p])
         IN  IF r.ret = "OK" THEN r.s
             ELSE TsRunNextRequeue(
                    [r.s EXCEPT !.cur = NoProc,
                                !.apps[p].pending_command = TRUE], p + 1)
    ELSE TsRunNextRequeue(s, p + 1)

\* run_next_command, the loop over apps.iter() from process p on.
TsRunNextCommand(s, p) ==
  IF p > NumProcs \/ s.panic THEN s
  ELSE IF p \in alive /\ s.apps[p].pending_command
    THEN LET r == TsDoCommand([s EXCEPT !.apps[p].pending_command = FALSE,
                                       !.cur = p])
         IN  IF r.ret = "OK" THEN r.s
             ELSE TsRunNextCommand([r.s EXCEPT !.cur = NoProc], p + 1)
    ELSE TsRunNextCommand(s, p + 1)

\* enqueue_command that stores the request over an occupied pending slot.
TsEnqueueOverwrite(s, command, data1, data2, p) ==
  IF s.cur = NoProc
    THEN LET r == TsDoCommand([s EXCEPT !.cur = p, !.apps[p].data1 = data1,
                                       !.apps[p].data2 = data2,
                                       !.apps[p].command = command])
         IN  IF r.ret = "OK" THEN r
             ELSE [ret |-> r.ret, s |-> [r.s EXCEPT !.cur = NoProc]]
    ELSE [ret |-> IF s.apps[p].pending_command THEN "BUSY" ELSE "OK",
          s |-> [s EXCEPT !.apps[p].pending_command = TRUE,
                          !.apps[p].command = command,
                          !.apps[p].data1 = data1, !.apps[p].data2 = data2]]

\* enqueue_command that leaves current_app set when do_command fails.
TsEnqueueKeepOwner(s, command, data1, data2, p) ==
  IF s.cur = NoProc
    THEN TsDoCommand([s EXCEPT !.cur = p, !.apps[p].data1 = data1,
                               !.apps[p].data2 = data2,
                               !.apps[p].command = command])
    ELSE IF s.apps[p].pending_command
      THEN [ret |-> "BUSY", s |-> s]
      ELSE [ret |-> "OK",
            s |-> [s EXCEPT !.apps[p].pending_command = TRUE,
                            !.apps[p].command = command,
                            !.apps[p].data1 = data1, !.apps[p].data2 = data2]]

\* enqueue_command for live process p: [ret, s].
TsEnqueueCommand(s, command, data1, data2, p) ==
  IF s.cur = NoProc
    THEN LET r == TsDoCommand([s EXCEPT !.cur = p, !.apps[p].data1 = data1,
                                       !.apps[p].data2 = data2,
                                       !.apps[p].command = command])
         IN  IF r.ret = "OK" THEN r
             ELSE [ret |-> r.ret, s |-> [r.s EXCEPT !.cur = NoProc]]
    ELSE IF s.apps[p].pending_command
      THEN [ret |-> "BUSY", s |-> s]
      ELSE [ret |-> "OK",
            s |-> [s EXCEPT !.apps[p].pending_command = TRUE,
                            !.apps[p].command = command,
                            !.apps[p].data1 = data1, !.apps[p].data2 = data2]]

\* schedule_callback that reads current_app without taking it.
TsScheduleNoTake(s) ==
  IF s.cur # NoProc /\ s.cur \in alive
    THEN [s EXCEPT !.apps[s.cur].pending_command = FALSE,
                   !.up = @ \cup {s.cur}]
    ELSE s

\* schedule_callback.
TsScheduleCallback(s) ==
  IF s.cur # NoProc /\ s.cur \in alive
    THEN [s EXCEPT !.apps[s.cur].pending_command = FALSE, !.cur = NoProc,
                   !.up = @ \cup {s.cur}]
    ELSE [s EXCEPT !.cur = NoProc]

\* A handler that panics does not return: nothing of this driver runs
\* afterwards, and its state stays what it was before the call.
TsCommit(s) ==
  IF s.panic
    THEN /\ ts_panicked' = TRUE
         /\ UNCHANGED <<ts_current_app, ts_apps, ts_buffer, ts_hw, ts_overlap,
                        ts_upcall>>
    ELSE /\ ts_current_app' = s.cur
         /\ ts_upcall' = s.up
         /\ ts_apps' = s.apps
         /\ ts_buffer' = s.buffer
         /\ ts_hw' = s.hw
         /\ ts_overlap' = s.overlap
         /\ UNCHANGED ts_panicked

\* SyscallDriver::command 1..11 from live process p.
TsCommand(p, command, data1, data2, rej, allow) ==
  /\ ~ts_panicked
  /\ p \in alive
  /\ LET r == TsEnqueueCommand(TsState(rej, allow), command, data1, data2, p)
     IN  TsCommit(r.s) /\ ts_ret' = r.ret
  /\ ts_queued' = IF ts_apps[p].pending_command
                    THEN [pid |-> p, slot |-> ts_apps[p]]
                    ELSE TsNoQueued
  /\ UNCHANGED <<alive, ts_stale, ts_others>>

\* SyscallDriver::command 0 from live process p.
TsCommandExists(p) ==
  /\ ~ts_panicked
  /\ p \in alive
  /\ ts_ret' = "OK"
  /\ ts_queued' = TsNoQueued
  /\ ts_upcall' = {}
  /\ UNCHANGED <<alive, ts_current_app, ts_apps, ts_buffer, ts_hw, ts_overlap,
                 ts_panicked, ts_stale, ts_others>>

\* TextScreenClient::command_complete from the screen.
TsCommandComplete(rej, allow) ==
  /\ ~ts_panicked
  /\ ts_hw = "command"
  /\ TsCommit(TsRunNextCommand(
                TsScheduleCallback([TsState(rej, allow) EXCEPT !.hw = "none"]), 1))
  /\ ts_ret' = "NONE"
  /\ ts_queued' = TsNoQueued
  /\ UNCHANGED <<alive, ts_stale, ts_others>>

\* TextScreenClient::write_complete from the screen.
TsWriteComplete(rej, allow) ==
  /\ ~ts_panicked
  /\ ts_hw = "write"
  /\ TsCommit(TsRunNextCommand(
                TsScheduleCallback(TsReclaim(TsState(rej, allow))), 1))
  /\ ts_ret' = "NONE"
  /\ ts_queued' = TsNoQueued
  /\ UNCHANGED <<alive, ts_stale, ts_others>>

TsInit ==
  /\ ts_current_app = NoProc
  /\ ts_apps = [p \in Procs |-> TsAppDefault]
  /\ ts_buffer = TRUE
  /\ ts_hw = "none"
  /\ ts_overlap = FALSE
  /\ ts_ret = "NONE"
  /\ ts_panicked = FALSE
  /\ ts_queued = TsNoQueued
  /\ ts_upcall = {}
  /\ ts_stale = {}

----------------------------------------------------------------------------
(* UsbSyscallDriver *)

\* serve_waiting_apps, the loop over apps.iter() from process p on: [s, to],
\* to the process whose request was served (NoProc: none found).
RECURSIVE UsbServe(_, _)
UsbServe(awaiting, p) ==
  IF p > NumProcs THEN [awaiting |-> awaiting, to |-> NoProc]
  ELSE IF p \in alive /\ awaiting[p]
    THEN [awaiting |-> [awaiting EXCEPT ![p] = FALSE], to |-> p]
    ELSE UsbServe(awaiting, p + 1)

\* serve_waiting_apps.
UsbServeWaitingApps(awaiting) ==
  IF usb_serving_app # NoProc THEN [awaiting |-> awaiting, to |-> NoProc]
  ELSE UsbServe(awaiting, 1)

\* SyscallDriver::command 1 (enable and attach) from live process p.
UsbCommandEnable(p) ==
  /\ p \in alive
  /\ IF usb_awaiting[p]
       THEN /\ usb_ret' = "BUSY"
            /\ usb_upcall' = NoProc
            /\ UNCHANGED usb_awaiting
            /\ usb_queued' = p
       ELSE LET r == UsbServeWaitingApps([usb_awaiting EXCEPT ![p] = TRUE])
            IN  /\ usb_awaiting' = r.awaiting
                /\ usb_upcall' = r.to
                /\ usb_ret' = "OK"
                /\ usb_queued' = NoProc
  /\ UNCHANGED <<alive, usb_serving_app, usb_others>>

\* SyscallDriver::command 0 from live process p.
UsbCommandExists(p) ==
  /\ p \in alive
  /\ usb_ret' = "OK"
  /\ usb_upcall' = NoProc
  /\ usb_queued' = NoProc
  /\ UNCHANGED <<alive, usb_awaiting, usb_serving_app, usb_others>>

UsbInit ==
  /\ usb_awaiting = [p \in Procs |-> FALSE]
  /\ usb_serving_app = NoProc
  /\ usb_ret = "NONE"
  /\ usb_upcall = NoProc
  /\ usb_queued = NoProc

----------------------------------------------------------------------------
(* RngDriver *)
(* A random byte is not followed by its value: the model keeps which bytes *)
(* of a process buffer were written.                                       *)

RngAppDefault == [remaining |-> 0, idx |-> 0]

\* The history of a process that has made no request of its present
\* buffer.
RngNoRequest ==
  [n |-> -1, written |-> {}, seen |-> FALSE, ups |-> 0, arg |-> 0]

\* randomness_available, the loop over apps.iter() from process p on.  s is
\* the state threaded through it: apps, the words the iterator `randomness`
\* can still yield, the local `done`, and the histories.
RECURSIVE RngServe(_, _)
RngServe(s, p) ==
  IF p > NumProcs \/ ~s.done THEN s
  ELSE IF p \notin alive THEN RngServe(s, p + 1)
  ELSE IF s.apps[p].remaining = 0
    THEN RngServe([s EXCEPT !.hist[p].seen = (s.hist[p].n >= 0)], p + 1)
  ELSE LET h         == s.hist
           idx       == s.apps[p].idx
           len       == rng_allow[p]
           remaining == IF len < idx + s.apps[p].remaining THEN len - idx
                        ELSE s.apps[p].remaining
           remaining_ints == (remaining + 3) \div 4
           taken     == Min(s.words, remaining_ints)
           bytes     == Min(remaining, 4 * taken)
           new       == IF len < idx THEN RngAppDefault
                        ELSE [remaining |-> remaining - bytes,
                              idx |-> idx + bytes]
           h1 == IF h[p].n < 0 THEN h
                 ELSE [h EXCEPT
                         ![p].seen = TRUE,
                         ![p].written =
                            IF len < idx THEN @
                            ELSE @ \cup {i \in 0..(len - 1) :
                                          idx <= i /\ i < idx + bytes},
                         ![p].ups = IF new.remaining = 0 THEN Min(@ + 1, 2)
                                    ELSE @,
                         ![p].arg = IF new.remaining = 0 THEN new.idx ELSE @]
       IN  RngServe([s EXCEPT !.apps[p] = new,
                              !.words = IF len < idx THEN @ ELSE @ - taken,
                              !.done = (new.remaining = 0),
                              !.hist = h1],
                    p + 1)

\* rng::Client::randomness_available with an iterator that yields `words`
\* 32-bit words.
RngRandomnessAvailable(words) ==
  /\ rng_hw
  /\ \E s \in {RngServe([apps |-> rng_apps, words |-> words, done |-> TRUE,
                          hist |-> rng_hist], 1)} :
       /\ rng_apps' = s.apps
       /\ rng_hist' = s.hist
       /\ rng_getting_randomness' = (rng_getting_randomness /\ ~s.done)
       /\ rng_ret' = IF s.done THEN "Done" ELSE "More"
       /\ rng_hw' = ~s.done
  /\ UNCHANGED <<alive, rng_allow, rng_others>>

\* SyscallDriver::command 1 from live process p for `data` bytes; fails:
\* the generator refuses get().
RngCommand(p, data, fails) ==
  /\ p \in alive
  /\ rng_apps' = [rng_apps EXCEPT ![p] = [remaining |-> data, idx |-> 0]]
  /\ rng_getting_randomness' = TRUE
  /\ rng_hw' = (rng_hw \/ (~rng_getting_randomness /\ ~fails))
  /\ rng_hist' = [rng_hist EXCEPT ![p] = [RngNoRequest EXCEPT !.n = data]]
  /\ rng_ret' = "NONE"
  /\ UNCHANGED <<alive, rng_allow, rng_others>>

\* Process p allows the driver a buffer of len bytes.
RngAllow(p, len) ==
  /\ p \in alive
  /\ rng_allow' = [rng_allow EXCEPT ![p] = len]
  /\ rng_hist' = [rng_hist EXCEPT ![p] = RngNoRequest]
  /\ rng_ret' = "NONE"
  /\ UNCHANGED <<alive, rng_apps, rng_getting_randomness, rng_hw,
                 rng_others>>

RngInit ==
  /\ rng_apps = [p \in Procs |-> RngAppDefault]
  /\ rng_getting_randomness = FALSE
  /\ rng_allow = [p \in Procs |-> 0]
  /\ rng_hw = FALSE
  /\ rng_ret = "NONE"
  /\ rng_hist = [p \in Procs |-> RngNoRequest]

----------------------------------------------------------------------------
(* SI7021 *)

sensor_others ==
  <<alive, av_vars, ad_vars, nv_vars, pwm_vars, ts_vars, usb_vars, rng_vars>>
si_others == <<sensor_others, isl_vars, hum_vars, ent_vars>>
isl_others == <<sensor_others, si_vars, hum_vars, ent_vars>>
ent_others == <<sensor_others, si_vars, isl_vars, hum_vars>>
\* What an action of the humidity driver leaves alone, alive apart.
hum_others ==
  <<av_vars, ad_vars, nv_vars, pwm_vars, ts_vars, usb_vars, rng_vars,
    si_vars, isl_vars, ent_vars>>

\* `let _ = self.i2c.write(buffer, ..)` / `self.i2c.read(buffer, ..)`: the
\* transfer the device has in flight afterwards.  fails: the device returns
\* an error, and the buffer with it, and both are dropped.
SiI2c(op, fails) == IF fails THEN "none" ELSE op

\* TemperatureDriver::read_temperature (kind "Temperature") and
\* HumidityDriver::read_humidity (kind "Humidity").
SiReadMeasurement(kind, fails) ==
  /\ IF si_state = "Idle"
       THEN IF ~si_buffer
              THEN /\ si_ret' = "BUSY"
                   /\ si_started' = "Nothing"
                   /\ UNCHANGED <<si_state, si_on_deck, si_buffer, si_i2c>>
              ELSE /\ si_buffer' = FALSE
                   /\ si_i2c' = SiI2c("write", fails)
                   /\ si_state' = IF kind = "Temperature"
                                    THEN "TakeTempMeasurementInit"
                                    ELSE "TakeRhMeasurementInit"
                   /\ si_ret' = "OK"
                   /\ si_started' = kind
                   /\ UNCHANGED si_on_deck
       ELSE /\ IF si_on_deck = "Nothing"
                 THEN si_on_deck' = kind /\ si_ret' = "OK"
                 ELSE si_ret' = "BUSY" /\ UNCHANGED si_on_deck
            /\ si_started' = "Nothing"
            /\ UNCHANGED <<si_state, si_buffer, si_i2c>>
  /\ si_callback' = "none"
  /\ UNCHANGED <<si_alarm, si_others>>

\* SI7021::read_id.
SiReadId(fails) ==
  /\ IF si_buffer
       THEN /\ si_buffer' = FALSE
            /\ si_i2c' = SiI2c("write", fails)
            /\ si_state' = "SelectElectronicId1"
       ELSE UNCHANGED <<si_state, si_buffer, si_i2c>>
  /\ si_ret' = "NONE"
  /\ si_started' = "Nothing"
  /\ si_callback' = "none"
  /\ UNCHANGED <<si_on_deck, si_alarm, si_others>>

\* I2CClient::command_complete: the device hands the buffer back.
SiCommandComplete(fails) ==
  /\ si_i2c # "none"
  /\ LET next(op, state) ==
           /\ si_i2c' = SiI2c(op, fails)
           /\ si_state' = state
           /\ UNCHANGED <<si_buffer, si_alarm>>
         init_measurement(state) ==
           /\ si_alarm' = TRUE
           /\ si_buffer' = TRUE
           /\ si_i2c' = "none"
           /\ si_state' = state
         set_idle ==
           /\ si_buffer' = TRUE
           /\ si_i2c' = "none"
           /\ si_state' = "Idle"
           /\ UNCHANGED si_alarm
         got(other, state) ==
           IF si_on_deck = other
             THEN /\ si_on_deck' = "Nothing"
                  /\ si_started' = other
                  /\ next("write", state)
             ELSE /\ set_idle
                  /\ si_started' = "Nothing"
                  /\ UNCHANGED si_on_deck
         quiet == si_started' = "Nothing" /\ UNCHANGED si_on_deck
     IN  CASE si_state = "SelectElectronicId1" ->
                next("read", "ReadElectronicId1") /\ quiet
           [] si_state = "ReadElectronicId1" ->
                next("write", "SelectElectronicId2") /\ quiet
           [] si_state = "SelectElectronicId2" ->
                next("read", "ReadElectronicId2") /\ quiet
           [] si_state = "ReadElectronicId2" -> set_idle /\ quiet
           [] si_state = "TakeTempMeasurementInit" ->
                init_measurement("WaitTemp") /\ quiet
           [] si_state = "TakeRhMeasurementInit" ->
                init_measurement("WaitRh") /\ quiet
           [] si_state = "ReadRhMeasurement" ->
                next("read", "GotRhMeasurement") /\ quiet
           [] si_state = "ReadTempMeasurement" ->
                next("read", "GotTempMeasurement") /\ quiet
           [] si_state = "GotTempMeasurement" ->
                got("Humidity", "TakeRhMeasurementInit")
           [] si_state = "GotRhMeasurement" ->
                got("Temperature", "TakeTempMeasurementInit")
           [] OTHER ->
                /\ si_i2c' = "none"
                /\ quiet
                /\ UNCHANGED <<si_state, si_buffer, si_alarm>>
  /\ si_callback' = CASE si_state = "GotTempMeasurement" -> "temperature"
                      [] si_state = "GotRhMeasurement" -> "humidity"
                      [] OTHER -> "none"
  /\ si_ret' = "NONE"
  /\ UNCHANGED si_others

\* AlarmClient::alarm.
SiAlarm(fails) ==
  /\ si_alarm
  /\ si_alarm' = FALSE
  /\ IF si_buffer
       THEN /\ si_buffer' = FALSE
            /\ si_i2c' = SiI2c("read", fails)
            /\ si_state' = CASE si_state = "WaitRh" -> "ReadRhMeasurement"
                             [] si_state = "WaitTemp" -> "ReadTempMeasurement"
                             [] OTHER -> si_state
       ELSE UNCHANGED <<si_state, si_buffer, si_i2c>>
  /\ si_ret' = "NONE"
  /\ si_started' = "Nothing"
  /\ si_callback' = "none"
  /\ UNCHANGED <<si_on_deck, si_others>>

SiInit ==
  /\ si_state = "Idle"
  /\ si_on_deck = "Nothing"
  /\ si_buffer = TRUE
  /\ si_i2c = "none"
  /\ si_alarm = FALSE
  /\ si_ret = "NONE"
  /\ si_started = "Nothing"
  /\ si_callback = "none"

----------------------------------------------------------------------------
(* Isl29035 *)

IslNoRead ==
  [accepted |-> FALSE, callbacks |-> 0, value |-> 0, error |-> FALSE,
   data |-> 0]

\* A driver whose client is never called.
IslCallbackDropped(read, value) == read

\* self.client.map(|client| client.callback(value)).
IslCallback(read, value) ==
  [read EXCEPT !.callbacks = IF @ < 2 THEN @ + 1 ELSE @, !.value = value]

\* AmbientLight::read_light_intensity, which is start_read_lux.  fails: the
\* I2C device rejects the write.
IslReadLightIntensity(fails) ==
  /\ IF isl_state = "Disabled"
       THEN IF ~isl_buffer
              THEN /\ isl_ret' = "NOMEM"
                   /\ UNCHANGED <<isl_state, isl_buffer, isl_i2c, isl_read>>
            ELSE IF fails
              THEN /\ isl_ret' = "I2CERR"
                   /\ UNCHANGED <<isl_state, isl_buffer, isl_i2c, isl_read>>
            ELSE /\ isl_buffer' = FALSE
                 /\ isl_i2c' = "write"
                 /\ isl_state' = "Enabling"
                 /\ isl_ret' = "OK"
                 /\ isl_read' = [IslNoRead EXCEPT !.accepted = TRUE]
       ELSE /\ isl_ret' = "BUSY"
            /\ UNCHANGED <<isl_state, isl_buffer, isl_i2c, isl_read>>
  /\ UNCHANGED <<isl_lux, isl_alarm, isl_others>>

\* AlarmClient::alarm.  fails: the I2C device rejects the write_read.
IslAlarm(fails) ==
  /\ isl_alarm
  /\ isl_alarm' = FALSE
  /\ IF ~isl_buffer
       THEN UNCHANGED <<isl_state, isl_buffer, isl_i2c, isl_read>>
     ELSE IF fails
       THEN /\ isl_state' = "Disabled"
            /\ isl_read' = IslCallback([isl_read EXCEPT !.error = TRUE], 0)
            /\ UNCHANGED <<isl_buffer, isl_i2c>>
     ELSE /\ isl_buffer' = FALSE
          /\ isl_i2c' = "write_read"
          /\ isl_state' = "ReadingLI"
          /\ UNCHANGED isl_read
  /\ isl_ret' = "NONE"
  /\ UNCHANGED <<isl_lux, isl_others>>

\* I2CClient::command_complete(buffer, status); data is buffer[0].  fails:
\* the I2C device rejects the write that disables the sensor.
IslCommandComplete(status_is_err, data, fails) ==
  /\ isl_i2c # "none"
  /\ IF status_is_err
       THEN /\ isl_state' = "Disabled"
            /\ isl_buffer' = TRUE
            /\ isl_i2c' = "none"
            /\ isl_read' = IslCallback([isl_read EXCEPT !.error = TRUE], 0)
            /\ UNCHANGED <<isl_lux, isl_alarm>>
       ELSE CASE isl_state = "Enabling" ->
                   /\ isl_alarm' = TRUE
                   /\ isl_buffer' = TRUE
                   /\ isl_i2c' = "none"
                   /\ isl_state' = "Integrating"
                   /\ UNCHANGED <<isl_lux, isl_read>>
              [] isl_state = "ReadingLI" ->
                   LET lux == (data * 4000) \div 256
                       read == [isl_read EXCEPT !.data = data]
                   IN  IF fails
                         THEN /\ isl_state' = "Disabled"
                              /\ isl_buffer' = TRUE
                              /\ isl_i2c' = "none"
                              /\ isl_read' =
                                   IslCallback([read EXCEPT !.error = TRUE], 0)
                              /\ UNCHANGED <<isl_lux, isl_alarm>>
                         ELSE /\ isl_state' = "Disabling"
                              /\ isl_lux' = lux
                              /\ isl_i2c' = "write"
                              /\ isl_read' = read
                              /\ UNCHANGED <<isl_buffer, isl_alarm>>
              [] isl_state = "Disabling" ->
                   /\ isl_state' = "Disabled"
                   /\ isl_lux' = 0
                   /\ isl_buffer' = TRUE
                   /\ isl_i2c' = "none"
                   /\ isl_read' = IslCallback(isl_read, isl_lux)
                   /\ UNCHANGED isl_alarm
              [] OTHER ->
                   /\ isl_i2c' = "none"
                   /\ UNCHANGED <<isl_state, isl_lux, isl_buffer, isl_alarm,
                                  isl_read>>
  /\ isl_ret' = "NONE"
  /\ UNCHANGED isl_others

IslInit ==
  /\ isl_state = "Disabled"
  /\ isl_lux = 0
  /\ isl_buffer = TRUE
  /\ isl_i2c = "none"
  /\ isl_alarm = FALSE
  /\ isl_ret = "NONE"
  /\ isl_read = IslNoRead

(* HumiditySensor *)

HumAppDefault == [subscribed |-> FALSE]

\* call_driver(command, _) for ReadHumidity: self.driver.read_humidity().
\* rej: the sensor rejects the call.  Yields the return code and what the
\* call met.
HumCallDriver(rej) ==
  [ret |-> IF rej THEN "FAIL" ELSE "OK",
   call |-> IF hum_hw THEN "overlap" ELSE IF rej THEN "rejected"
            ELSE "accepted"]

\* SyscallDriver::command(command_num, arg1, _, processid), with
\* enqueue_command for command 1.
HumCommand(p, command_num, rej) ==
  /\ p \in alive
  /\ CASE command_num = 0 ->
            /\ hum_ret' = "OK"
            /\ hum_call' = "none"
            /\ UNCHANGED <<hum_apps, hum_busy, hum_hw, hum_ok>>
       [] command_num = 1 ->
            /\ hum_apps' = [hum_apps EXCEPT ![p].subscribed = TRUE]
            /\ IF ~hum_busy
                 THEN LET r == HumCallDriver(rej)
                      IN  /\ hum_busy' = TRUE
                          /\ hum_hw' = (hum_hw \/ ~rej)
                          /\ hum_call' = r.call
                          /\ hum_ret' = r.ret
                          /\ hum_ok' = IF r.ret = "OK" THEN hum_ok \cup {p}
                                       ELSE hum_ok
                 ELSE /\ hum_ret' = "OK"
                      /\ hum_call' = "none"
                      /\ hum_ok' = hum_ok \cup {p}
                      /\ UNCHANGED <<hum_busy, hum_hw>>
       [] OTHER ->
            /\ hum_ret' = "NOSUPPORT"
            /\ hum_call' = "none"
            /\ UNCHANGED <<hum_apps, hum_busy, hum_hw, hum_ok>>
  /\ hum_upcall' = <<>>
  /\ UNCHANGED <<alive, hum_others>>

\* HumidityClient::callback(humidity_val): the loop over self.apps.iter(),
\* which visits the live processes in order.
HumServe(humidity_val) ==
  LET subscribed(p) == p \in alive /\ hum_apps[p].subscribed
      served == SelectSeq([i \in 1..NumProcs |-> i], subscribed)
  IN  [apps |-> [p \in Procs |->
                   IF subscribed(p) THEN [hum_apps[p] EXCEPT
                                            !.subscribed = FALSE]
                   ELSE hum_apps[p]],
       upcalls |-> [i \in 1..Len(served) |-> <<served[i], humidity_val>>]]

HumCallback(humidity_val) ==
  /\ hum_hw
  /\ hum_hw' = FALSE
  /\ hum_busy' = FALSE
  /\ hum_apps' = HumServe(humidity_val).apps
  /\ hum_upcall' = HumServe(humidity_val).upcalls
  /\ hum_ok' = {}
  /\ hum_call' = "none"
  /\ hum_ret' = "NONE"
  /\ UNCHANGED <<alive, hum_others>>

HumInit ==
  /\ hum_apps = [p \in Procs |-> HumAppDefault]
  /\ hum_busy = FALSE
  /\ hum_hw = FALSE
  /\ hum_call = "none"
  /\ hum_ret = "NONE"
  /\ hum_ok = {}
  /\ hum_upcall = <<>>

(* Entropy32To8 and Entropy8To32 *)

\* A u32 is the pair <<upper 16 bits, lower 16 bits>>, an integer of the
\* checker holding 31 bits only.
U32Zero == <<0, 0>>

\* a | b on 16 bits.
RECURSIVE BitOr(_, _)
BitOr(a, b) ==
  IF a = 0 THEN b
  ELSE IF b = 0 THEN a
  ELSE (IF a % 2 = 1 \/ b % 2 = 1 THEN 1 ELSE 0)
         + 2 * BitOr(a \div 2, b \div 2)

\* a | b on u32.
U32Or(a, b) == <<BitOr(a[1], b[1]), BitOr(a[2], b[2])>>

\* (bits as u32) << n, for a byte `bits` and n < 32.
U32Shl(bits, n) ==
  IF n >= 16 THEN <<(bits * 2 ^ (n - 16)) % 65536, 0>>
  ELSE <<(bits * 2 ^ n) \div 65536, (bits * 2 ^ n) % 65536>>

\* w >> 8 on u32.
U32Shr8(w) == <<w[1] \div 256, (w[1] % 256) * 256 + w[2] \div 256>>

\* (w & 0xff) as u8.
U32LowByte(w) == w[2] % 256

\* The cells of the two converters during one call; left: the bytes the
\* 8-bit source still yields in this call before it runs out.
EntCells(left) ==
  [entropy |-> e32_entropy, bytes_consumed |-> e32_bytes_consumed,
   count |-> e8_count, bytes |-> e8_bytes, left |-> left, more |-> FALSE]

\* The loop `while count < 4` of Entropy8To32::entropy_available.  The
\* source's next() yields Entropy32To8Iter::next() while bytes are left in
\* this call: the byte entropy & 0xff, with entropy shifted right by 8.
RECURSIVE Entropy8To32Collect(_)
Entropy8To32Collect(s) ==
  IF s.count < 4
    THEN IF s.left = 0 \/ ~(s.bytes_consumed < 4)
           THEN [s EXCEPT !.more = TRUE]
           ELSE LET val == U32LowByte(s.entropy)
                IN  Entropy8To32Collect(
                      [s EXCEPT !.entropy = U32Shr8(s.entropy),
                                !.bytes_consumed = @ + 1,
                                !.left = @ - 1,
                                !.bytes = U32Or(@, U32Shl(val, 8 * s.count)),
                                !.count = @ + 1])
    ELSE s

\* What Entropy8To32Iter yields to the client: next() is Some(bytes) when
\* count is 4, and sets count to 0.
Entropy8To32Iter(s) == IF s.count = 4 THEN <<s.bytes>> ELSE <<>>

\* Entropy8To32::entropy_available(entropy, error) on the cells c.  takes:
\* the client calls next() on the iterator it is handed; rval: what the
\* client returns.
Entropy8To32Available(c, error, takes, rval) ==
  IF error
    THEN [cells |-> IF takes /\ c.count = 4 THEN [c EXCEPT !.count = 0]
                    ELSE c,
          offered |-> Entropy8To32Iter(c), ret |-> rval]
    ELSE LET s == Entropy8To32Collect(c)
         IN  IF s.more
               THEN [cells |-> s, offered |-> <<>>, ret |-> "More"]
               ELSE [cells |-> [s EXCEPT !.count = IF takes THEN 0 ELSE @,
                                         !.bytes = U32Zero],
                     offered |-> Entropy8To32Iter(s), ret |-> rval]

EntCommit(r) ==
  /\ e32_entropy' = r.cells.entropy
  /\ e32_bytes_consumed' = r.cells.bytes_consumed
  /\ e8_count' = r.cells.count
  /\ e8_bytes' = r.cells.bytes
  /\ ent_offered' = r.offered
  /\ ent_ret' = r.ret

\* Entropy32To8::entropy_available(entropy, error), r being entropy.next()
\* (<<>>: None), with the 8-bit stage that hands at most `left` of its bytes
\* per call to Entropy8To32 as its client.
Entropy32To8Available(r, error, left, takes, rval) ==
  /\ IF error
       THEN /\ EntCommit(Entropy8To32Available(EntCells(left), TRUE, takes,
                                               rval))
            /\ UNCHANGED ent_word
     ELSE IF r = <<>>
       THEN /\ ent_ret' = "NONE"
            /\ ent_offered' = <<>>
            /\ UNCHANGED <<e32_entropy, e32_bytes_consumed, e8_count,
                           e8_bytes, ent_word>>
     ELSE /\ ent_word' = r[1]
          /\ EntCommit(Entropy8To32Available(
                         [EntCells(left) EXCEPT !.entropy = r[1],
                                                !.bytes_consumed = 0],
                         FALSE, takes, rval))
  /\ UNCHANGED ent_others

\* The 8-bit stage calls Entropy8To32 again with the bytes of
\* Entropy32To8Iter it has not handed over yet.
Entropy8To32Again(left, takes, rval) ==
  /\ ent_ret = "More"
  /\ EntCommit(Entropy8To32Available(EntCells(left), FALSE, takes, rval))
  /\ UNCHANGED <<ent_word, ent_others>>

EntInit ==
  /\ e32_entropy = U32Zero
  /\ e32_bytes_consumed = 0
  /\ e8_count = 0
  /\ e8_bytes = U32Zero
  /\ ent_word = U32Zero
  /\ ent_offered = <<>>
  /\ ent_ret = "NONE"

----------------------------------------------------------------------------
\* A process is destroyed: its ProcessId stops resolving and its grant
\* regions are freed (a later process starts from the Default records).
\* av_stale and ts_stale record the processes that had a request queued
\* behind another process's operation at that moment.
ProcessDestroyed(p) ==
  /\ p \in alive
  /\ alive' = alive \ {p}
  /\ av_apps' = [av_apps EXCEPT ![p] = AppSysDefault]
  /\ nv_apps' = [nv_apps EXCEPT ![p] = NvAppDefault]
  /\ ad_apps' = [ad_apps EXCEPT ![p] = AdAppDefault]
  /\ ad_allow' = [ad_allow EXCEPT ![p] = <<0, 0>>]
  /\ ad_copy' = AdState({}, FALSE).copy
  /\ ad_upcall' = <<>>
  /\ UNCHANGED <<ad_active, ad_mode, ad_processid, ad_cells, ad_hw,
                 ad_channel, ad_ret, ad_stopped, ad_panicked>>
  /\ av_queued' = IF av_queued.pid = p THEN AvNoQueued ELSE av_queued
  /\ av_stale' = IF /\ av_apps[p].pending_command
                    /\ av_current_process \notin {NoProc, p}
                    /\ av_hw # NoChan
                   THEN av_stale \cup {p} ELSE av_stale
  /\ UNCHANGED <<av_current_process, av_hw, av_overlap, av_ret, av_upcall,
                 av_dropped>>
  /\ UNCHANGED <<nv_current_user, nv_buffer, nv_kernel, nv_hw, nv_client,
                 nv_overlap, nv_data, nv_ret>>
  /\ ts_apps' = [ts_apps EXCEPT ![p] = TsAppDefault]
  /\ ts_queued' = IF ts_queued.pid = p THEN TsNoQueued ELSE ts_queued
  /\ ts_stale' = IF /\ ts_apps[p].pending_command
                    /\ ts_current_app \notin {NoProc, p}
                    /\ ts_hw # "none"
                   THEN ts_stale \cup {p} ELSE ts_stale
  /\ UNCHANGED <<ts_current_app, ts_buffer, ts_hw, ts_overlap, ts_ret,
                 ts_panicked, ts_upcall>>
  /\ usb_awaiting' = [usb_awaiting EXCEPT ![p] = FALSE]
  /\ usb_queued' = IF usb_queued = p THEN NoProc ELSE usb_queued
  /\ UNCHANGED <<usb_serving_app, usb_ret, usb_upcall>>
  /\ rng_apps' = [rng_apps EXCEPT ![p] = RngAppDefault]
  /\ rng_allow' = [rng_allow EXCEPT ![p] = 0]
  /\ rng_hist' = [rng_hist EXCEPT ![p] = RngNoRequest]
  /\ rng_ret' = "NONE"
  /\ UNCHANGED <<rng_getting_randomness, rng_hw>>
  /\ UNCHANGED pwm_vars
  /\ hum_apps' = [hum_apps EXCEPT ![p] = HumAppDefault]
  /\ hum_ok' = hum_ok \ {p}
  /\ hum_upcall' = <<>>
  /\ hum_call' = "none"
  /\ hum_ret' = "NONE"
  /\ UNCHANGED <<hum_busy, hum_hw>>
  /\ UNCHANGED <<si_vars, isl_vars, ent_vars>>

Init ==
  /\ alive = Procs
  /\ AvInit
  /\ AdInit
  /\ NvInit
  /\ PwmInit
  /\ TsInit
  /\ UsbInit
  /\ RngInit
  /\ SiInit
  /\ IslInit
  /\ HumInit
  /\ EntInit

\* How many start attempts in a row the hardware rejects in one handler: a
\* request makes one attempt, and only when nothing is in flight; the scan
\* after a completion makes at most one per process.
AvRejections == IF av_current_process = NoProc THEN {0, 1} ELSE {0}
AvDoneRejections == 0..NumProcs

\* AdcVirtualized used by the processes in P.
AvNext(P) ==
  \/ \E p \in P, ch \in ChannelArgs, rej \in AvRejections :
       AvCommandSample(p, ch, rej)
  \/ \E p \in P : AvCommandExists(p)
  \/ \E rej \in AvDoneRejections : AvSampleReady(rej)
  \/ \E p \in P : ProcessDestroyed(p)

NextAv == AvNext(Procs)

SpecAv == Init /\ [][NextAv]_vars

\* AdcDedicated has one owner at a time: an owner and one other process
\* show every case.  What they ask of it: each command, the sampling ones
\* on a channel that exists and on one that does not, with each call of the
\* ADC the command can make failing or not; allowed buffers, in bytes, for
\* one sample each, for more than one ADC buffer and one sample, and for
\* more than two ADC buffers and more than one.  Process 1 is the one that
\* allows buffers; process 2 contends with single and continuous samples and
\* with buffered requests that find no buffer.
AdProcs == {1, 2}
AdBufferedProcs == {1}
AdRequests ==
  {[command_num |-> 0, channel |-> 0, hwf |-> {}]}
    \cup {[command_num |-> c, channel |-> ch, hwf |-> f] :
             c \in 1..4, ch \in {0}, f \in {{}, {"start"}}}
    \cup {[command_num |-> c, channel |-> NumChannels, hwf |-> {}] :
             c \in {1, 3}}
    \cup {[command_num |-> 5, channel |-> 0, hwf |-> f] :
             f \in {{}, {"stop"}, {"retrieve"}}}
AdAllowPairs ==
  {<<2, 2>>, <<4 * AdcBufLen + 2, 2 * AdcBufLen + 2>>}

\* AdcDedicated with the buffers of process 1 drawn from pairs.
AdNext(requests, pairs) ==
  \/ \E p \in AdProcs, r \in requests :
       AdCommand(p, r.command_num, r.channel, r.hwf)
  \/ \E hwf \in SUBSET {"stop"} : AdSampleReady(hwf)
  \/ \E hwf \in {{}, {"provide"}, {"stop"}, {"retrieve"}}, checked \in BOOLEAN :
       AdSamplesReady(hwf, checked)
  \/ \E p \in AdBufferedProcs, pair \in pairs : AdAllow(p, pair)
  \/ \E p \in AdProcs : ~ad_panicked /\ ProcessDestroyed(p)

NextAd == AdNext(AdRequests, AdAllowPairs)

SpecAd == Init /\ [][NextAd]_vars

\* AdcDedicated where process 1 allows one shape of buffers: a first one
\* for more samples than one ADC buffer holds and a second one for one
\* sample.
NextAdOne == AdNext(AdRequests, {<<2 * AdcBufLen + 2, 2>>})

SpecAdOne == Init /\ [][NextAdOne]_vars

\* AdcDedicated where process 1 allows a first buffer for one sample and a
\* second one for as many samples as an ADC buffer holds.
NextAdSmall == AdNext(AdRequests, {<<2, 2 * AdcBufLen>>})

SpecAdSmall == Init /\ [][NextAdSmall]_vars

\* AdcDedicated used for single samples and single buffers, on either
\* channel, the process buffer holding fewer samples than an ADC buffer,
\* as many, more, as many as two, and more than two.
NextAdSingle ==
  AdNext({[command_num |-> 1, channel |-> 0, hwf |-> {}]}
           \cup {[command_num |-> 3, channel |-> ch, hwf |-> f] :
                   ch \in 0..NumChannels, f \in {{}, {"start"}}}
           \cup {[command_num |-> 5, channel |-> 0, hwf |-> f] :
                   f \in {{}, {"stop"}, {"retrieve"}}},
         {<<b, 0>> : b \in {2, 2 * AdcBufLen, 2 * AdcBufLen + 2,
                            4 * AdcBufLen, 4 * AdcBufLen + 2}})

SpecAdSingle == Init /\ [][NextAdSingle]_vars

\* The requests made of the storage driver: reads and writes that lie in
\* the region, one that runs over its end, for the kernel one that begins
\* before its start, and, for a process, one for which it has allowed no
\* buffer.
NvUserRequests ==
  {[command |-> "UserspaceRead",  offset |-> 0, length |-> 2, allow |-> 2],
   [command |-> "UserspaceWrite", offset |-> 0, length |-> 2, allow |-> 2],
   [command |-> "UserspaceWrite", offset |-> 0, length |-> 2, allow |-> 0],
   [command |-> "UserspaceRead",  offset |-> 1, length |-> 1, allow |-> 2],
   [command |-> "UserspaceRead",  offset |-> 1, length |-> 2, allow |-> 2]}
NvKernelRequests ==
  {[command |-> "KernelRead",  address |-> 1, length |-> 2],
   [command |-> "KernelWrite", address |-> 1, length |-> 2],
   [command |-> "KernelWrite", address |-> 2, length |-> 2],
   [command |-> "KernelRead",  address |-> 0, length |-> 2]}
NvReissues == {NvNoReissue} \cup NvKernelRequests
\* A request reaches the storage driver only when none is in flight; a
\* completion handler calls it at most twice before a call is accepted.
NvRejections == IF nv_current_user = NoProc THEN {0, 1} ELSE {0}
NvDoneRejections == {0, 1, 2}

NextNv ==
  \/ \E p \in Clients, r \in NvUserRequests, rej \in NvRejections :
       NvCommand(p, r.command, r.offset, r.length, r.allow, rej)
  \/ \E r \in NvKernelRequests, rej \in NvRejections :
       NvKernelRequest(r.command, r.address, r.length, rej)
  \/ \E re \in NvReissues, rej \in NvDoneRejections : NvDone(re, rej)
  \/ \E p \in Clients : ProcessDestroyed(p)

SpecNv == Init /\ [][NextNv]_vars

\* The settings the clients ask for, as <<frequency_hz, duty_cycle>>, and the
\* hardware calls that fail, by position, among those of one start() (at
\* most one call) and of one stop() (at most two).
PwmSettings == {<<220, 25>>, <<440, 50>>}
PwmStartFailures == SUBSET {1}
PwmFailures == SUBSET {1, 2}

NextPwm ==
  \/ \E u \in PwmUsers : PwmAddToMux(u)
  \/ \E u \in PwmUsers, a \in PwmSettings, fails \in PwmStartFailures :
       PwmStart(u, a[1], a[2], fails)
  \/ \E u \in PwmUsers, fails \in PwmFailures : PwmStop(u, fails)

SpecPwm == Init /\ [][NextPwm]_vars

\* The requests made of the text screen:
\* GetResolution, a command that is one call of the screen (Display stands
\* for all of them), a Write of two bytes and a Write of none.  When a
\* handler runs, at most one process has allowed no buffer and the others
\* one as long as the driver's.
TsRequests ==
  {[command |-> "GetResolution", data1 |-> 0, data2 |-> 0],
   [command |-> "Display",       data1 |-> 2, data2 |-> 1],
   [command |-> "Write",         data1 |-> 2, data2 |-> 1],
   [command |-> "Write",         data1 |-> 0, data2 |-> 0]}
TsAllows ==
  {[p \in Clients |-> IF p = q THEN 0 ELSE TsBufLen] : q \in Clients \cup {NoProc}}
TsRejections == IF ts_current_app = NoProc THEN {0, 1} ELSE {0}
TsDoneRejections == 0..NumClients

NextTs ==
  \/ \E p \in Clients, r \in TsRequests, rej \in TsRejections,
        allow \in TsAllows :
       TsCommand(p, r.command, r.data1, r.data2, rej, allow)
  \/ \E p \in Clients : TsCommandExists(p)
  \/ \E rej \in TsDoneRejections, allow \in TsAllows :
       TsCommandComplete(rej, allow)
  \/ \E rej \in TsDoneRejections, allow \in TsAllows :
       TsWriteComplete(rej, allow)
  \/ \E p \in Clients : ~ts_panicked /\ ProcessDestroyed(p)

SpecTs == Init /\ [][NextTs]_vars

NextUsb ==
  \/ \E p \in Clients : UsbCommandEnable(p)
  \/ \E p \in Clients : UsbCommandExists(p)
  \/ \E p \in Clients : ProcessDestroyed(p)

SpecUsb == Init /\ [][NextUsb]_vars

\* RngDriver: requests for no byte, for fewer bytes than a word and for
\* more, buffers shorter and longer than the request, an iterator that
\* yields up to two words.
NextRng ==
  \/ \E p \in Clients, data \in {0, 3, 5}, fails \in BOOLEAN :
       RngCommand(p, data, fails)
  \/ \E words \in 0..2 : RngRandomnessAvailable(words)
  \/ \E p \in Clients, len \in {0, 4, 6} : RngAllow(p, len)
  \/ \E p \in Clients : ProcessDestroyed(p)

SpecRng == Init /\ [][NextRng]_vars

NextSi ==
  \/ \E kind \in {"Temperature", "Humidity"}, fails \in BOOLEAN :
       SiReadMeasurement(kind, fails)
  \/ \E fails \in BOOLEAN : SiReadId(fails)
  \/ \E fails \in BOOLEAN : SiCommandComplete(fails)
  \/ \E fails \in BOOLEAN : SiAlarm(fails)

SpecSi == Init /\ [][NextSi]_vars

\* The bytes the light register reads.
IslData == {0, 1, 16, 64, 128, 200, 255}

NextIsl ==
  \/ \E fails \in BOOLEAN : IslReadLightIntensity(fails)
  \/ \E fails \in BOOLEAN : IslAlarm(fails)
  \/ \E status_is_err, fails \in BOOLEAN, data \in IslData :
       IslCommandComplete(status_is_err, data, fails)

SpecIsl == Init /\ [][NextIsl]_vars

\* The 32-bit words the entropy source yields: 1, 0x12345678 and
\* 0xFFFFFFFF.
EntWords == {<<0, 1>>, <<4660, 22136>>, <<65535, 65535>>}

NextEnt ==
  \/ \E r \in {<<>>} \cup {<<w>> : w \in EntWords}, error, takes \in BOOLEAN,
        left \in 0..4, rval \in {"More", "Done"} :
       Entropy32To8Available(r, error, left, takes, rval)
  \/ \E left \in 0..4, takes \in BOOLEAN, rval \in {"More", "Done"} :
       Entropy8To32Again(left, takes, rval)

SpecEnt == Init /\ [][NextEnt]_vars

\* The n least significant bytes of the u32 w.
EntLowBytes(w, n) ==
  CASE n = 0 -> U32Zero
    [] n = 1 -> <<0, w[2] % 256>>
    [] n = 2 -> <<0, w[2]>>
    [] n = 3 -> <<w[1] % 256, w[2]>>
    [] OTHER -> w

\* Entropy8To32 holds the first bytes of the word Entropy32To8 was given
\* last, and Entropy32To8 has yielded no others.
EntPartial ==
  /\ ent_ret = "More"
  /\ e8_count < 4
  /\ e8_count = e32_bytes_consumed
  /\ e8_bytes = EntLowBytes(ent_word, e8_count)

\* C40: for every 32-bit word w, the four bytes Entropy32To8 yields from w,
\* least significant first, fed in order to an Entropy8To32 that holds no
\* part of another word, are delivered to its client as exactly one word
\* equal to w; when the 8-bit source runs out before four bytes are
\* collected, Entropy8To32 returns More, keeps the bytes collected so far,
\* and completes the same word on the next call.
C40_RoundTrip ==
  [][\A left \in 0..4, takes \in BOOLEAN, rval \in {"More", "Done"} :
       /\ \A w \in EntWords :
            (/\ e8_count \notin 1..3
             /\ Entropy32To8Available(<<w>>, FALSE, left, takes, rval))
              => IF left = 4
                   THEN ent_offered' = <<w>>
                   ELSE /\ ent_ret' = "More"
                        /\ ent_offered' = <<>>
                        /\ e8_count' = left
                        /\ e8_bytes' = EntLowBytes(w, left)
       /\ (EntPartial /\ Entropy8To32Again(left, takes, rval))
            => IF left >= 4 - e8_count
                 THEN ent_offered' = <<ent_word>>
                 ELSE /\ ent_ret' = "More"
                      /\ ent_offered' = <<>>
                      /\ e8_count' = e8_count + left
                      /\ e8_bytes' = EntLowBytes(ent_word, e8_count')]_vars

\* The humidity values the sensor reports.
HumValues == {0, 55}

NextHum ==
  \/ \E p \in Procs, command_num \in 0..2, rej \in BOOLEAN :
       HumCommand(p, command_num, rej)
  \/ \E humidity_val \in HumValues : HumCallback(humidity_val)
  \/ \E p \in Procs : ProcessDestroyed(p)

SpecHum == Init /\ [][NextHum]_vars

\* C39: read_humidity() is never issued to the sensor while an earlier
\* accepted read has not yet called back; every process whose command 1
\* returned success before a sensor callback receives exactly one upcall at
\* that callback; and after a read_humidity() that the sensor rejects
\* synchronously the driver is not left busy.
C39_ReadsSerialisedAndAnswered ==
  /\ [](hum_call # "overlap")
  /\ [][\A humidity_val \in HumValues :
          HumCallback(humidity_val) =>
            \A p \in hum_ok :
              Cardinality({i \in 1..Len(hum_upcall') :
                             hum_upcall'[i][1] = p}) = 1]_vars
  /\ [](hum_call = "rejected" => ~hum_busy)

\* The I2C device completes every transfer it accepted and the alarm fires
\* once armed.
SpecIslLive ==
  /\ SpecIsl
  /\ WF_vars(\E fails \in BOOLEAN : IslAlarm(fails))
  /\ WF_vars(\E status_is_err, fails \in BOOLEAN, data \in IslData :
               IslCommandComplete(status_is_err, data, fails))

\* C38: with the I2C device and the alarm delivering one callback per
\* accepted request, the buffer is in the driver's cell whenever the state
\* is Disabled or Integrating; read_light_intensity returns BUSY and changes
\* nothing unless the state is Disabled; and every accepted
\* read_light_intensity leads to the state Disabled with exactly one client
\* callback made since it was accepted, whose value is the lux computed from
\* the byte read when no I2C call or transfer failed and 0 otherwise, no
\* callback being made before the state is back at Disabled.
C38_OneCallbackPerRead ==
  /\ [](isl_state \in {"Disabled", "Integrating"} => isl_buffer)
  /\ [][\A fails \in BOOLEAN :
          IslReadLightIntensity(fails) =>
            IF isl_state = "Disabled"
              THEN isl_ret' # "BUSY"
              ELSE /\ isl_ret' = "BUSY"
                   /\ UNCHANGED <<isl_state, isl_lux, isl_buffer, isl_i2c,
                                  isl_alarm, isl_read>>]_vars
  /\ [](isl_read.accepted =>
          IF isl_state = "Disabled"
            THEN /\ isl_read.callbacks = 1
                 /\ isl_read.value =
                      IF isl_read.error THEN 0
                      ELSE (isl_read.data * 4000) \div 256
            ELSE isl_read.callbacks = 0)
  /\ (isl_state # "Disabled") ~> (isl_state = "Disabled")

\* A read that was accepted ran to its end without an I2C failure and the
\* client was handed the lux value of the byte 255.
C38_Witness ==
  /\ isl_state = "Disabled"
  /\ isl_read.accepted
  /\ ~isl_read.error
  /\ isl_read.data = 255
  /\ isl_read.value = 3984
  /\ isl_read.callbacks = 1
  /\ isl_buffer

\* The three process-facing drivers with a BUSY answer, used by the same
\* processes and exercised one at a time: a driver takes steps while the
\* other two are as constructed.  The drivers share no state, so each one
\* behaves as under its own specification.
NextSlots ==
  \/ TsInit /\ UsbInit /\ AvNext(Clients)
  \/ AvInit /\ UsbInit /\ NextTs
  \/ AvInit /\ TsInit /\ NextUsb

SpecSlots == Init /\ [][NextSlots]_vars

\* The two drivers whose completion handlers scan the grants with
\* run_next_command, exercised one at a time: AdcVirtualized by every
\* process, TextScreen by its clients.
NextScan ==
  \/ TsInit /\ NextAv
  \/ AvInit /\ NextTs

SpecScan == Init /\ [][NextScan]_vars

----------------------------------------------------------------------------
\* C1: in AdcVirtualized no sample() is ever issued to a channel driver while
\* an accepted sample() still awaits its sample_ready callback, whatever the
\* interleaving of command-1 requests, completions and process deaths.
C1_AtMostOneInFlight == av_overlap = FALSE

\* sample_ready delivered one process's sample and its scan started the
\* request of a second process while a third one stays queued behind it.
C1_Witness ==
  /\ av_upcall.pid # NoProc
  /\ av_hw # NoChan
  /\ av_current_process \notin {NoProc, av_upcall.pid}
  /\ \E p \in Procs : p # av_current_process /\ av_apps[p].pending_command

\* C2: in NonvolatileStorage the underlying driver's read/write is never
\* called while an earlier accepted read/write has not completed, also when
\* the kernel client issues its next request from inside read_done/write_done
\* while a process request is queued.
C2_AtMostOneInFlight == nv_overlap = FALSE

\* C4: when read_done/write_done has run for an operation that used the
\* internal buffer, the buffer is back in the driver's cell (or already out
\* again with the next operation), also when the owning process was destroyed
\* before the completion; no start attempt is rejected in the handler.
C4_BufferBackAfterDone ==
  [][\A re \in NvReissues :
       (nv_hw.buf = InternalBuf /\ NvDone(re, 0))
         => InternalBuf \in {nv_buffer', nv_hw'.buf}]_vars

C9_QueuedKernelOpKept ==
  [][\A r \in NvKernelRequests, rej \in NvRejections :
       (nv_kernel.pending_command /\ nv_kernel.buffer # NoBuf
          /\ NvKernelRequest(r.command, r.address, r.length, rej))
         => nv_ret' # "OK" /\ nv_kernel' = nv_kernel]_vars

\* C3: in MuxPwm, with A and B registered and the mux idle, A.start(f, d)
\* calls the hardware start for A's pin and makes A the owner; B.start(...)
\* while A is in flight makes no hardware call and leaves B's operation
\* pending; A.stop() then calls the hardware stop for A's pin and, in the same
\* call, starts B's pending operation on B's pin with B as the new owner.
C3_StartQueueStop ==
  [][\A A \in PwmUsers :
       /\ pwm_inflight = NoUser =>
            \A x \in PwmSettings, fails \in PwmStartFailures :
              PwmStart(A, x[1], x[2], fails)
                => /\ pwm_calls' = <<[call |-> "start", pin |-> A,
                                      frequency_hz |-> x[1],
                                      duty_cycle |-> x[2]]>>
                   /\ pwm_inflight' = A
       /\ pwm_inflight = A =>
            \A B \in PwmUsers \ {A}, x \in PwmSettings,
               fails \in PwmFailures :
              /\ (fails \in PwmStartFailures /\ PwmStart(B, x[1], x[2], fails))
                   => /\ pwm_calls' = <<>>
                      /\ pwm_inflight' = A
                      /\ pwm_operation'[B] = Simple(x[1], x[2])
              /\ (pwm_operation[B] = Simple(x[1], x[2])
                     /\ PwmFind(PwmState(fails), 1) = B /\ PwmStop(A, fails))
                   => /\ pwm_calls' =
                           <<[call |-> "stop", pin |-> A, frequency_hz |-> 0,
                              duty_cycle |-> 0],
                             [call |-> "start", pin |-> B,
                              frequency_hz |-> x[1], duty_cycle |-> x[2]]>>
                      /\ pwm_inflight' = B
                      /\ pwm_operation'[B] = PwmNone]_vars

\* The owner's stop() has stopped its pin and started the queued user's
\* operation: that user now owns the PWM.
C3_Witness ==
  /\ Len(pwm_calls) = 2
  /\ pwm_calls[1].call = "stop"
  /\ pwm_calls[2].call = "start"
  /\ pwm_calls[2].pin # pwm_calls[1].pin
  /\ pwm_inflight = pwm_calls[2].pin

\* C10: in MuxPwm a start() from a user that is not the owner and whose
\* operation slot is occupied is rejected with Busy and leaves the queued
\* operation (frequency and duty cycle) unchanged.
C10_OccupiedSlotBusy ==
  [][\A u \in PwmUsers, x \in PwmSettings, fails \in PwmStartFailures :
       (pwm_inflight \notin {NoUser, u} /\ pwm_operation[u] # PwmNone
          /\ PwmStart(u, x[1], x[2], fails))
         => pwm_ret' = "BUSY" /\ pwm_operation'[u] = pwm_operation[u]]_vars

\* C5: in TextScreen the transfer buffer is in the driver's cell whenever no
\* Write is outstanding on the screen: write_complete puts it back before
\* resolving the owner (so also when the owner was destroyed mid-write), and
\* a print() the screen rejects synchronously returns it.
C5_BufferInCell == ts_hw # "write" => ts_buffer

\* The screen rejected a print() synchronously (the last request was a Write
\* of two bytes: no record holds another command) and the buffer is in the
\* cell.
C5_Witness ==
  /\ ts_ret = "HWERR"
  /\ ts_hw = "none"
  /\ ts_buffer
  /\ \A p \in Procs : ts_apps[p].command \in {"Idle", "Write"}

\* C6: in AdcDedicated each of the three ADC buffers is at every instant in
\* exactly one place, a cell adc_buf1/adc_buf2/adc_buf3 or the ADC hardware,
\* across buffered-sampling commands, samples_ready callbacks, stop commands
\* and process deaths: replace_buffer never overwrites an occupied cell and
\* sample_buffer never takes adc_buf1 and drops it for want of adc_buf2.
C6_BufferInOnePlace ==
  \A b \in AdcBufs :
    Cardinality({i \in 1..3 : ad_cells[i] = b}
                  \cup {3 + j : j \in {k \in 1..Len(ad_hw.bufs) :
                                         ad_hw.bufs[k].buf = b}}) = 1

\* A samples_ready of a continuous buffered operation found the cells as
\* the operation's start left them: the buffer it returned went to adc_buf3,
\* the one that was there to adc_buf2, and adc_buf2's went back to the ADC.
C6_Witness ==
  /\ ad_active
  /\ ad_mode = "ContinuousBuffer"
  /\ ad_ret = "NONE"
  /\ ad_cells = <<NoBuffer, NoBuffer, 1>>
  /\ Len(ad_hw.bufs) = 2
  /\ ad_hw.bufs[1].buf = 2
  /\ ad_hw.bufs[2].buf = 3

C11_StaleRequestSkipped ==
  [][/\ \A x \in av_stale' :
          av_current_process' # x /\ av_upcall'.pid # x
     /\ \A x \in ts_stale' : ts_current_app' # x /\ x \notin ts_upcall'
     /\ \A rej \in AvDoneRejections :
          (av_stale # {} /\ AvSampleReady(rej))
            => /\ av_current_process \in alive
                    => av_upcall'.pid = av_current_process
               /\ (\A q \in alive : ~av_apps[q].pending_command)
                    => av_current_process' = NoProc /\ av_hw' = NoChan
     /\ \A rej \in TsDoneRejections, allow \in TsAllows :
          (ts_stale # {}
             /\ (TsCommandComplete(rej, allow) \/ TsWriteComplete(rej, allow)))
            => /\ (ts_current_app \in alive /\ ~ts_panicked')
                    => ts_current_app \in ts_upcall'
               /\ (\A q \in alive : ~ts_apps[q].pending_command)
                    => /\ ts_current_app' = NoProc
                       /\ ts_hw' = "none"
                       /\ ~ts_panicked']_vars

\* Process Y's write completed after process X, whose write was queued
\* behind it, was destroyed: Y has its upcall and the screen driver is
\* idle.
C11_Witness ==
  /\ ts_stale # {}
  /\ ts_upcall # {}
  /\ ts_upcall \subseteq alive
  /\ ts_current_app = NoProc
  /\ ts_hw = "none"
  /\ ts_buffer
  /\ ~ts_panicked

\* C12: a valid userspace read or write request from process X (in range,
\* with a buffer allowed, X's pending slot free) made while another
\* process's userspace operation is in flight is accepted and stored in X's
\* pending slot, without a call of the storage driver.
C12_QueuedBehindUser ==
  [][\A p \in Clients, r \in NvUserRequests :
       (/\ nv_current_user \in Clients \ {p}
        /\ nv_hw.busy
        /\ r.allow > 0
        /\ NvInBounds(r.command, r.offset, r.length)
        /\ ~nv_apps[p].pending_command
        /\ NvCommand(p, r.command, r.offset, r.length, r.allow, 0))
         => /\ nv_ret' = "OK"
            /\ nv_apps'[p].pending_command
            /\ nv_hw' = nv_hw]_vars

\* C13: in AdcVirtualized a single-sample request made while the driver is
\* idle whose sample() the channel driver rejects returns a failure (not
\* success), and the driver remains idle: current_process is empty.
C13_IdleRejectReported ==
  [][\A p \in Procs, channel \in 0..(NumChannels - 1) :
       (/\ av_current_process = NoProc
        /\ \A q \in Procs : ~av_apps[q].pending_command
        /\ AvCommandSample(p, channel, 1))
         => av_ret' # "OK" /\ av_current_process' = NoProc]_vars

\* C14: in NonvolatileStorage a request (userspace or kernel) made while
\* the driver is idle whose read/write the underlying driver rejects
\* returns that error and leaves the driver idle: current_user is empty
\* afterwards.
C14_IdleRejectLeavesIdle ==
  [][/\ \A p \in Clients, r \in NvUserRequests :
          (nv_current_user = NoProc
             /\ NvCommand(p, r.command, r.offset, r.length, r.allow, 1)
             /\ nv_ret' = "HWERR")
            => nv_current_user' = NoProc
     /\ \A r \in NvKernelRequests :
          (nv_current_user = NoProc
             /\ NvKernelRequest(r.command, r.address, r.length, 1)
             /\ nv_ret' = "HWERR")
            => nv_current_user' = NoProc]_vars

\* C15: in MuxPwm a client's start() issued while the mux is idle whose
\* hardware start returns an error returns that error (not success) and
\* leaves the mux idle: no in-flight owner is recorded.
C15_IdleStartRejected ==
  [][\A u \in PwmUsers, x \in PwmSettings :
       (/\ pwm_inflight = NoUser
        /\ \A v \in PwmUsers : pwm_operation[v] = PwmNone
        /\ PwmStart(u, x[1], x[2], {1}))
         => pwm_ret' # "OK" /\ pwm_inflight' = NoUser]_vars

\* C20: in MuxPwm, when the owner's stop() leaves the PWM idle while
\* several other clients have a start pending, the scan starts the one
\* registered first with add_to_mux: no client is started while a client
\* registered before it has a start pending.
C20_RegistrationOrder ==
  [][\A u \in PwmUsers, fails \in PwmFailures :
       (pwm_inflight = u /\ PwmStop(u, fails))
         => \A i, j \in 1..Len(pwm_devices) :
              (/\ i < j
               /\ u \notin {pwm_devices[i], pwm_devices[j]}
               /\ pwm_operation[pwm_devices[i]].kind = "Simple"
               /\ pwm_operation[pwm_devices[j]].kind = "Simple")
                => pwm_inflight' # pwm_devices[i]]_vars

\* C16: in TextScreen a command issued while the driver is idle that the
\* screen rejects synchronously returns the screen's error and leaves the
\* driver idle: current_app is empty, the requesting process has no
\* pending flag set, nothing is in flight and the buffer is in its cell.
C16_IdleRejectLeavesIdle ==
  [][ts_current_app = NoProc =>
       \A r \in {x \in TsRequests :
                   x.command = "Display"
                     \/ (x.command = "Write" /\ x.data1 > 0)} :
         \A p \in Clients, allow \in TsAllows :
           (TsCommand(p, r.command, r.data1, r.data2, 1, allow)
              /\ ~ts_panicked')
             => /\ ts_ret' = "HWERR"
                /\ ts_current_app' = NoProc
                /\ ~ts_apps'[p].pending_command
                /\ ts_hw' = "none"
                /\ ts_buffer']_vars

\* The screen rejected a Write issued to the idle driver: the command
\* returned the error and the driver is idle with its buffer back.
C16_Witness ==
  /\ ts_ret = "HWERR"
  /\ ts_current_app = NoProc
  /\ ts_hw = "none"
  /\ ts_buffer
  /\ \E p \in Clients :
       /\ ts_apps[p].command = "Write"
       /\ ts_apps[p].write_len = 2
       /\ ~ts_apps[p].pending_command

C18_NothingStartedIdle ==
  [][\A rej \in NvDoneRejections :
       (NvDone(NvNoReissue, rej) /\ ~nv_hw'.busy)
         => nv_current_user' = NoProc]_vars

\* C19: command 0 returns success for any calling process in any driver
\* state and changes neither the driver's owner nor any other arbitration
\* state; stated here for AdcDedicated.
C19_CommandZeroProbe ==
  [][\A p \in AdProcs :
       (p \in alive /\ ~ad_panicked
          /\ ad_ret' # "NONE"
          /\ \E r \in {x \in AdRequests : x.command_num = 0} :
               AdCommand(p, r.command_num, r.channel, r.hwf))
         => /\ ad_ret' = "OK"
            /\ UNCHANGED <<ad_active, ad_mode, ad_processid, ad_apps,
                           ad_cells, ad_hw>>]_vars

\* C21: in AdcDedicated, while process P is the recorded owner and an
\* operation is active or P is alive, every command from another process
\* returns NOMEM and changes nothing of the driver or the ADC; the
\* recorded owner passes to a different process only when no owner is
\* recorded or the driver is inactive and P no longer exists.
C21_OwnerExcludesOthers ==
  [][/\ (ad_processid # NoProc /\ (ad_active \/ ad_processid \in alive))
          => \A p \in AdProcs \ {ad_processid}, r \in AdRequests :
               AdCommand(p, r.command_num, r.channel, r.hwf)
                 => /\ ad_ret' = "NOMEM"
                    /\ UNCHANGED <<ad_active, ad_mode, ad_processid, ad_apps,
                                   ad_cells, ad_hw>>
     /\ ad_processid' \notin {NoProc, ad_processid}
          => \/ ad_processid = NoProc
             \/ ~ad_active /\ ad_processid \notin alive]_vars

\* Process 2 was refused with NOMEM while process 1, the owner, has a
\* buffered operation in progress.
C21_Witness ==
  /\ ad_ret = "NOMEM"
  /\ ad_processid = 1
  /\ 1 \in alive
  /\ 2 \in alive
  /\ ad_active
  /\ ad_mode = "SingleBuffer"
  /\ ad_hw.mode = "highspeed"

\* A SingleBuffer operation of the live owner is under way with its books
\* in order: the ADC holds requests for exactly the samples outstanding,
\* and the samples copied so far (app_buf_offset / 2), those outstanding
\* and those still to be requested add up to the samples the first
\* allowed buffer holds.
C22_Tracked ==
  /\ ad_active /\ ad_mode = "SingleBuffer" /\ ad_hw.mode = "highspeed"
  /\ ad_processid \in alive
  /\ ~ad_panicked
  /\ LET app == ad_apps[ad_processid]
     IN  /\ app.using_app_buf0
         /\ app.samples_remaining >= 0
         /\ app.app_buf_offset
              = 2 * (ad_allow[ad_processid][1] \div 2
                       - app.samples_outstanding - app.samples_remaining)
         /\ Len(ad_hw.bufs) \in {1, 2}
         /\ app.samples_outstanding
              = ad_hw.bufs[1].len
                  + (IF Len(ad_hw.bufs) = 2 THEN ad_hw.bufs[2].len ELSE 0)

\* C22: AdcDedicated, SingleBuffer mode, the ADC accepting every call and
\* delivering each buffer with the number of samples asked for, the allowed
\* buffer staying the one the operation started with, whatever its size
\* against one and two ADC buffers.  A sample_buffer command that returns
\* success starts with no sample copied and the channel recorded.  Each
\* samples_ready copies exactly `length` samples of the buffer just
\* returned into the first allowed buffer, starting behind the samples
\* already copied.  While samples are still missing it schedules no upcall,
\* stays active, and hands the ADC another buffer when some samples were
\* not asked for yet.  When the copied total reaches the allowed length / 2
\* it schedules the one upcall (SingleBuffer, that sample count, the
\* channel, the first allowed buffer) and leaves the driver inactive in
\* NoMode.
C22_SingleBufferCopies ==
  [][/\ \A p \in AdProcs, ch \in 0..(NumChannels - 1) :
          (/\ ad_hw.bufs = <<>>
           /\ AdCommand(p, 3, ch, {})
           /\ ad_ret' = "OK")
            => /\ C22_Tracked'
               /\ ad_processid' = p /\ ad_channel' = ch
               /\ ad_apps'[p].app_buf_offset = 0
               /\ ad_upcall' = <<>>
     /\ C22_Tracked
          => \A checked \in BOOLEAN :
               AdSamplesReady({}, checked)
                 => LET app    == ad_apps[ad_processid]
                        total  == ad_allow[ad_processid][1] \div 2
                        copied == app.app_buf_offset \div 2
                        length == Head(ad_hw.bufs).len
                    IN  /\ ~ad_panicked'
                        /\ ad_copy'.buf = Head(ad_hw.bufs).buf
                        /\ ad_copy'.from = ad_copy'.buf
                        /\ ad_copy'.n = length
                        /\ ad_copy'.at = copied
                        /\ ad_copy'.to = 1
                        /\ IF copied + length < total
                             THEN /\ ad_upcall' = <<>>
                                  /\ C22_Tracked'
                                  /\ IF app.samples_remaining = 0
                                       THEN ad_copy'.prov = 0
                                       ELSE /\ ad_copy'.prov
                                                \notin {0, ad_copy'.buf}
                                            /\ ad_hw'.bufs
                                                = Append(Tail(ad_hw.bufs),
                                                    [buf |-> ad_copy'.prov,
                                                     len |-> Min(
                                                       app.samples_remaining,
                                                       AdcBufLen)])
                             ELSE /\ copied + length = total
                                  /\ ad_upcall' = <<"SingleBuffer", total,
                                                    ad_channel, 1>>
                                  /\ ~ad_active' /\ ad_mode' = "NoMode"
                                  /\ ad_hw' = [mode |-> "idle", bufs |-> <<>>]
    ]_vars

\* The third samples_ready of an operation on channel 1 for one sample more
\* than two ADC buffers hold copied the last sample and scheduled the
\* upcall.
C22_Witness ==
  /\ ad_upcall = <<"SingleBuffer", 2 * AdcBufLen + 1, 1, 1>>
  /\ ad_copy.at = 2 * AdcBufLen /\ ad_copy.n = 1
  /\ ad_copy.from = ad_copy.buf /\ ad_copy.buf # 0
  /\ ~ad_active /\ ad_mode = "NoMode"
  /\ ad_allow[1] = <<4 * AdcBufLen + 2, 0>>

\* C23: in AdcDedicated, from the moment a stop command of the owner returns
\* success until a sampling command is accepted, the driver is inactive
\* (active false, mode NoMode) and no handler schedules an upcall, whatever
\* sample_ready and samples_ready callbacks still arrive.
C23_StoppedIsSilent ==
  ad_stopped => ~ad_active /\ ad_mode = "NoMode" /\ ad_upcall = <<>>

\* A samples_ready arrived after the owner's stop had returned success (the
\* ADC had refused an earlier stop and was still sampling).
C23_Witness ==
  /\ ad_stopped
  /\ ad_ret = "NONE"
  /\ ad_copy.buf # 0
  /\ ad_processid \in alive

\* C24: in NonvolatileStorage, every read or write the storage driver
\* accepted for a process covers only physical addresses of
\* [userspace_start_address, userspace_start_address + userspace_length),
\* and every one accepted for the kernel client only addresses of
\* [kernel_start_address, kernel_start_address + kernel_length); a request
\* whose range leaves its region returns INVAL, starts nothing and is not
\* queued.
C24_RegionsRespected ==
  [][/\ nv_hw'.busy
          => IF nv_hw'.user = Kernel
               THEN /\ kernel_start_address <= nv_hw'.addr
                    /\ nv_hw'.addr + nv_hw'.len
                         <= kernel_start_address + kernel_length
               ELSE /\ nv_hw'.user \in Procs
                    /\ userspace_start_address <= nv_hw'.addr
                    /\ nv_hw'.addr + nv_hw'.len
                         <= userspace_start_address + userspace_length
     /\ \A p \in Clients, r \in NvUserRequests, rej \in NvRejections :
          (/\ r.offset + r.length > userspace_length
           /\ NvCommand(p, r.command, r.offset, r.length, r.allow, rej))
            => /\ nv_ret' = "INVAL"
               /\ UNCHANGED <<nv_hw, nv_apps, nv_current_user>>
     /\ \A r \in NvKernelRequests, rej \in NvRejections :
          (/\ \/ r.address < kernel_start_address
              \/ r.address + r.length > kernel_start_address + kernel_length
           /\ NvKernelRequest(r.command, r.address, r.length, rej))
            => /\ nv_ret' = "INVAL"
               /\ UNCHANGED <<nv_hw, nv_apps, nv_current_user>>
               /\ nv_kernel' = [nv_kernel EXCEPT !.buffer = KernelBuf]
    ]_vars

\* A read of process 1 at offset 1 is in flight at physical address
\* userspace_start_address + 1 while a kernel request is queued.
C24_Witness ==
  /\ nv_hw.busy
  /\ nv_hw.user = 1
  /\ nv_hw.addr = userspace_start_address + 1
  /\ nv_hw.len = 1
  /\ nv_kernel.pending_command
  /\ nv_kernel.address = kernel_start_address

\* C25: in RngDriver, for a live process whose latest command 1 asked for n
\* bytes of its allowed buffer of length L: at most one upcall was scheduled
\* since; when one was, bytes 0 .. min(n, L) - 1 of the buffer, and no
\* others, were written and the upcall carries min(n, L); once these bytes
\* are written and a randomness_available has come to the process, the
\* upcall was scheduled.  randomness_available returns More when a live
\* process still needs bytes and Done when none does.
C25_OneUpcallAtFill ==
  /\ \A p \in alive :
       rng_hist[p].n >= 0
         => LET h      == rng_hist[p]
                filled == {i \in 0..(rng_allow[p] - 1) : i < h.n}
            IN  /\ h.ups <= 1
                /\ h.ups = 1
                     => h.written = filled /\ h.arg = Cardinality(filled)
                /\ (h.seen /\ h.written = filled) => h.ups = 1
  /\ rng_ret = "More" => \E p \in alive : rng_apps[p].remaining > 0
  /\ rng_ret = "Done" => \A p \in alive : rng_apps[p].remaining = 0

\* C26: in TextScreen, after every command and every completion handler
\* that returns, current_app is set only while the screen holds an accepted
\* operation whose command_complete / write_complete is still to come; in
\* particular the driver is idle after a GetResolution was served with no
\* other request pending.
C26_OwnerOnlyWhileOutstanding ==
  (~ts_panicked /\ ts_current_app # NoProc) => ts_hw # "none"

\* C27: in AdcVirtualized and TextScreen, a request the owner has queued
\* behind its own operation in flight (for TextScreen one that is a single
\* call of the screen) survives the completion of that operation: when the
\* completion handler returns, with the hardware accepting what the scan
\* starts, the request is in flight or still pending.
C27_OwnQueuedRequestKept ==
  [][/\ (/\ av_current_process \in alive
         /\ av_apps[av_current_process].pending_command
         /\ AvSampleReady(0))
          => \/ av_apps'[av_current_process].pending_command
             \/ /\ av_current_process' = av_current_process
                /\ av_hw' = av_apps[av_current_process].channel
     /\ \A allow \in TsAllows :
          (/\ ts_current_app \in alive
           /\ ts_apps[ts_current_app].pending_command
           /\ ts_apps[ts_current_app].command \notin {"Write", "GetResolution"}
           /\ (TsCommandComplete(0, allow) \/ TsWriteComplete(0, allow))
           /\ ~ts_panicked')
            => \/ ts_apps'[ts_current_app].pending_command
               \/ ts_current_app' = ts_current_app /\ ts_hw' = "command"
    ]_vars

\* C28: in the buffered modes of AdcDedicated, the ADC delivering with each
\* buffer the number of samples asked for it, whenever a samples_ready is
\* due for the live owner the delivered length is at most
\* samples_outstanding, and when that buffer completes an allowed buffer in
\* ContinuousBuffer mode, next_samples_outstanding is at most the samples
\* the next allowed buffer holds: neither subtraction underflows.
C28_NoUnderflow ==
  (/\ ad_active /\ ad_mode \in {"SingleBuffer", "ContinuousBuffer"}
   /\ ad_processid \in alive
   /\ ad_hw.mode = "highspeed" /\ ad_hw.bufs # <<>>
   /\ ~ad_panicked)
    => LET app    == ad_apps[ad_processid]
           length == Head(ad_hw.bufs).len
           next   == ad_allow[ad_processid][IF app.using_app_buf0 THEN 2
                                            ELSE 1] \div 2
       IN  /\ ~ULess(app.samples_outstanding, length)
           /\ (/\ ad_mode = "ContinuousBuffer"
               /\ app.samples_remaining = 0
               /\ app.samples_outstanding = length)
                => ~ULess(next, app.next_samples_outstanding)

\* C29: a write of a process that the storage driver has in flight,
\* whether enqueue_command started it at once or check_queue dispatched it
\* from the process's pending slot, writes the bytes of that process's
\* allowed write buffer, not what the internal buffer held before.
C29_QueuedWriteData ==
  (nv_hw.busy /\ nv_hw.cmd = "write" /\ nv_hw.user \in Procs)
    => nv_hw.data = <<"app", nv_hw.user>>

\* C30: in a samples_ready of AdcDedicated the buffer the ADC has just
\* returned is not the one the same callback hands to provide_buffer, and
\* the samples copied to the process are read from the buffer just
\* returned, also when provide_buffer fails and the rejected buffer is
\* stored again with replace_buffer.
C30_FreshBufferCopied ==
  ad_copy.buf # 0
    => /\ ad_copy.prov # ad_copy.buf
       /\ ad_copy.to # 0 => ad_copy.from = ad_copy.buf

\* C31: in AdcDedicated, when the owner was destroyed while its operation is
\* active, the next sample_ready or samples_ready schedules no upcall,
\* leaves the driver inactive with mode NoMode and without a recorded
\* owner, so that the ownership check of command lets every live process
\* in, and calls stop_sampling: an ADC that accepts the call is idle
\* afterwards.
C31_DeadOwnerReleased ==
  [][(/\ ad_active
      /\ ad_processid # NoProc /\ ad_processid \notin alive
      /\ \E hwf \in SUBSET {"provide", "stop", "retrieve"}, checked \in BOOLEAN :
           AdSampleReady(hwf) \/ AdSamplesReady(hwf, checked))
       => /\ ad_upcall' = <<>>
          /\ ~ad_active' /\ ad_mode' = "NoMode"
          /\ ad_processid' = NoProc
          /\ \A p \in alive : AdMayOwn(p)'
          /\ (AdSampleReady({}) \/ AdSamplesReady({}, FALSE))
               => ad_hw'.mode = "idle"]_vars

\* The owner, process 1, is gone while its ContinuousBuffer operation is
\* active and the ADC holds buffers for it; process 2 is alive.
C31_Witness ==
  /\ ad_active /\ ad_mode = "ContinuousBuffer"
  /\ ad_processid = 1 /\ 1 \notin alive /\ 2 \in alive
  /\ ad_hw.mode = "highspeed" /\ ad_hw.bufs # <<>>
  /\ ~ad_panicked

\* C32: in MuxPwm, a start() of the in-flight owner calls the hardware
\* start on the owner's pin with the new frequency and duty cycle, keeps
\* the owner and touches no other client's operation; a stop() of a client
\* that is not the owner makes no hardware call and only puts Stop into
\* that client's own operation slot; and when the owner's stop() makes the
\* mux scan, a client's pending Stop is taken out of its slot without a
\* hardware call on its pin: it stays only behind a client at the head of
\* the list whose start ended the scan.
C32_OwnerRestartForeignStop ==
  [][\A A \in PwmUsers :
       pwm_inflight = A =>
         /\ \A x \in PwmSettings, fails \in PwmStartFailures :
              PwmStart(A, x[1], x[2], fails)
                => /\ pwm_calls' = <<[call |-> "start", pin |-> A,
                                      frequency_hz |-> x[1],
                                      duty_cycle |-> x[2]]>>
                   /\ pwm_inflight' = A
                   /\ pwm_operation' = [pwm_operation EXCEPT ![A] = PwmNone]
         /\ \A B \in PwmUsers \ {A}, fails \in PwmFailures :
              /\ PwmStop(B, fails)
                   => /\ pwm_calls' = <<>>
                      /\ pwm_inflight' = A
                      /\ pwm_pins' = pwm_pins
                      /\ pwm_operation' =
                           [pwm_operation EXCEPT ![B] = PwmStopOp]
              /\ (pwm_operation[B] = PwmStopOp /\ PwmStop(A, fails))
                   => /\ \A k \in 1..Len(pwm_calls') : pwm_calls'[k].pin # B
                      /\ pwm_pins'[B] = pwm_pins[B]
                      /\ pwm_operation'[B] \in {PwmNone, PwmStopOp}
                      /\ pwm_operation'[B] = PwmStopOp
                           => \E i, j \in 1..Len(pwm_devices) :
                                /\ i < j
                                /\ pwm_devices[i] = pwm_inflight'
                                /\ pwm_devices[j] = B]_vars

\* A client that is not the owner has called stop(): no hardware call was
\* made, its Stop is pending, and another client is in flight.
C32_Witness ==
  /\ pwm_inflight # NoUser
  /\ pwm_calls = <<>>
  /\ pwm_ret = "OK"
  /\ \E B \in PwmUsers \ {pwm_inflight} :
       PwmRegistered(B) /\ pwm_operation[B] = PwmStopOp

\* C33: in MuxPwm, between the calls of start() and stop(): when no client
\* is in flight no registered client has an operation pending, and when a
\* client is in flight its own operation slot is empty.
C33_NothingWaitsWhileIdle ==
  /\ pwm_inflight = NoUser
       => \A u \in PwmUsers : PwmRegistered(u) => pwm_operation[u] = PwmNone
  /\ pwm_inflight # NoUser => pwm_operation[pwm_inflight] = PwmNone

\* The owner's stop() left the mux idle: its one hardware call was the
\* stop of the owner's pin, the scan started nobody, and all three clients
\* are registered.
C33_Witness ==
  /\ pwm_inflight = NoUser
  /\ Len(pwm_devices) = NumPwmUsers
  /\ Len(pwm_calls) = 1 /\ pwm_calls[1].call = "stop"
  /\ pwm_ret = "OK"

\* C34: in RngDriver, whenever some live process has remaining > 0 an
\* acquisition is in progress: getting_randomness is set and the generator
\* has accepted a get() whose randomness_available calls are not over, also
\* after a get() that returned an error.
C34_AcquisitionWhileNeeded ==
  (\E p \in alive : rng_apps[p].remaining > 0)
    => rng_getting_randomness /\ rng_hw

\* C35: in SI7021, the request on deck is started (the chip is sent its
\* command and the slot is emptied) by the command_complete that ends the
\* measurement in flight, of whichever kind; the slot is empty whenever the
\* chip is back at Idle; and a request made while the slot is occupied
\* returns BUSY and leaves the slot as it is.
C35_OnDeckStartedNext ==
  [][/\ \A fails \in BOOLEAN :
          (/\ si_state \in {"GotTempMeasurement", "GotRhMeasurement"}
           /\ si_on_deck # "Nothing"
           /\ SiCommandComplete(fails))
            => si_started' = si_on_deck /\ si_on_deck' = "Nothing"
     /\ si_state' = "Idle" => si_on_deck' = "Nothing"
     /\ \A kind \in {"Temperature", "Humidity"}, fails \in BOOLEAN :
          (si_on_deck # "Nothing" /\ SiReadMeasurement(kind, fails))
            => si_ret' = "BUSY" /\ si_on_deck' = si_on_deck]_vars

\* C36: in AdcVirtualized, the upcall that sample_ready schedules for the
\* live owner carries the channel of the sample in flight, which is the
\* channel the owner's request named, whether the request was started at
\* once or dispatched from the queue.
C36_UpcallNamesChannel ==
  [][(/\ av_hw # NoChan
      /\ av_current_process # NoProc /\ av_current_process \in alive
      /\ \E rej \in AvDoneRejections : AvSampleReady(rej))
       => av_upcall' = [pid |-> av_current_process, channel |-> av_hw]]_vars

\* C37: in TextScreen, a Write copies min(data1, length of the kernel
\* buffer, length of the process's allowed buffer) bytes at most: no
\* handler indexes the allowed buffer at or beyond its length (which would
\* panic the kernel), whatever data1 and the allowed length, zero included.
C37_WriteWithinAllowed == ts_panicked = FALSE
====
